---- MODULE Spec2Model ----
(***************************************************************************)
(* Model of the recipe back end: the per-user stores of user_utils.js      *)
(* (favorites, watch history, private and family recipes) and the like     *)
(* engine of recipes_utils.js, over the tables of create_tables.sql.       *)
(*                                                                         *)
(* Every DButils.execQuery call is one atomic step of the store; a         *)
(* handler with two statements is two steps, and the steps of different    *)
(* requests interleave freely.                                             *)
(***************************************************************************)
EXTENDS Integers, Sequences, FiniteSets, TLC

\* ------------------------------------------------------------------ bounds
MaxLikes == 1
MaxPrivate == 2
MaxFamily == 3
MaxBatch == 2
MaxNameLen == 1
MaxIngredients == 1
NumUsers == 2
NumRecipes == 2
NumProcs == 2
NumSessions == 2
MaxTime == 1

Users == 1..NumUsers
\* a caller with no identity has user_id 0
UsersOrNone == Users \cup {0}
Recipes == 1..NumRecipes
Procs == 1..NumProcs
Sessions == 1..NumSessions
Time == 0..MaxTime
Pairs == Users \X Recipes

\* ------------------------------------------------------------------- text
\* a text is a sequence of characters; these are the ones that JSON and a
\* quoted SQL literal treat specially, and one that they do not
SQ == "'"
DQ == "\""
BS == "\\"
Alphabet == {"a", SQ, DQ}
RECURSIVE TextsUpTo(_)
TextsUpTo(n) ==
  IF n = 0 THEN {<<>>}
  ELSE LET shorter == TextsUpTo(n - 1)
       IN shorter \cup {Append(t, ch) : t \in shorter, ch \in Alphabet}
\* the names an ingredient or a recipe can carry
Names == TextsUpTo(MaxNameLen) \ {<<>>}
RECURSIVE ListsUpTo(_)
ListsUpTo(n) ==
  IF n = 0 THEN {<<>>}
  ELSE LET shorter == ListsUpTo(n - 1)
       IN shorter \cup {Append(l, x) : l \in shorter, x \in Names}
\* the ingredient lists a request can carry (an ingredient is its name)
IngredientLists == ListsUpTo(MaxIngredients)
\* a text, and a list, the request body does not have
Undefined == <<"undefined">>
UndefinedList == <<Undefined>>

VARIABLES
  now,               \* CURRENT_TIMESTAMP of the database server
  favorite_recipes,  \* [Pairs -> Nat]: number of rows with that (user_id, recipe_id)
  watched_recipes,   \* [Pairs -> Seq(Time)]: watched_at of each row with that key
  recipe_likes,      \* [Pairs -> Nat]: number of rows with that (user_id, recipe_id)
  private_recipes,   \* the rows of private_recipes; given: the fields the creator supplied
  privateNextId,     \* the AUTO_INCREMENT counter of private_recipes
  family_recipes,    \* the rows of family_recipes; given: the ingredients the creator supplied
  familyNextId,      \* the AUTO_INCREMENT counter of family_recipes
  pc,                \* [Procs -> label]: where each request in flight stands
  call,              \* [Procs -> record]: the operation and arguments of the request
  loc,               \* [Procs -> record]: the locals the request carries across awaits
  agg,               \* the call of the recipe aggregator in flight, and its items
  sess,              \* [Sessions -> record]: the session objects of the callers
  last,              \* the call about obsPair that finished last, and its outcome
  obsPair,           \* the (user, recipe) pair the observers follow
  favStage,          \* 0..4: observer of add, add, remove, remove on obsPair
  favAdded,          \* the pairs (u, r) where u has added r and not removed it since
  watchStage,        \* 0..2: consecutive undisturbed markAsWatched calls on obsPair
  viewOrder,         \* the recipes obsPair[1] has viewed, each once, the latest view last
  likeStage,         \* 0..2: consecutive undisturbed toggles (no desired value) on obsPair
  likeOrig,          \* was obsPair liked before the first of those toggles
  desStage,          \* 0..2: consecutive toggles with the same desired value on obsPair
  desVal             \* that desired value

dbVars == <<favorite_recipes, watched_recipes, recipe_likes, private_recipes, privateNextId,
           family_recipes, familyNextId>>
procVars == <<pc, call, loc>>
obsVars == <<obsPair, favStage, favAdded, watchStage, viewOrder, likeStage, likeOrig, desStage, desVal>>
vars == <<now, dbVars, procVars, agg, sess, last, obsVars>>

\* ----------------------------------------------------- calls and outcomes
\* like: "undefined" when toggleRecipeLike gets no desired value; limit: -1
\* when getLastWatchedRecipes gets no limit; user_id: 0 for a caller with no
\* identity
NoFields ==
  [title |-> Undefined, servings |-> -1, ingredients |-> UndefinedList,
   recipe_name |-> Undefined, query |-> Undefined,
   owner_name |-> Undefined, instructions |-> Undefined, when_to_prepare |-> Undefined]
NoCall == [op |-> "none", user_id |-> 0, recipe_id |-> 0, like |-> "undefined",
           fields |-> NoFields, limit |-> -1]
MkCall(o, u, r) == [NoCall EXCEPT !.op = o, !.user_id = u, !.recipe_id = r]

\* locals of a request in flight. solo: no other request has stepped since the
\* call began; raced: another toggle that had read the same state wrote while
\* this one stood between its read and its write; sent: the statements a call
\* of the watch history has sent to the store
NoLoc == [solo |-> TRUE, exists |-> FALSE, currentlyLiked |-> FALSE,
          readOk |-> FALSE, raced |-> FALSE, userLikes |-> 0, likers |-> 0, sent |-> 0]

\* a value the async function resolved to
Returned(v) == [thrown |-> FALSE, status |-> 200, value |-> v, message |-> "ok"]
\* a thrown { status, message } object
Thrown(s, m) == [thrown |-> TRUE, status |-> s, value |-> "none", message |-> m]
\* an error of the store thrown on as it came (it carries no status)
Rethrown == [thrown |-> TRUE, status |-> 0, value |-> "none", message |-> "store error"]
NoRet == [thrown |-> FALSE, status |-> 0, value |-> "none", message |-> "none"]

\* the record kept of a finished call: its arguments, its outcome and what the
\* call saw (l: its locals when it finished, t1: the time it finished,
\* catalog: what the catalog reported to it, -1 when it was not asked or failed;
\* of an aggregator call, items: its items as they ended, asked: the number of
\* requests it sent to the catalog)
Finished(c, out, l, t, cat) ==
  [op |-> c.op, user_id |-> c.user_id, recipe_id |-> c.recipe_id, like |-> c.like,
   fields |-> c.fields, limit |-> c.limit, out |-> out, l |-> [l EXCEPT !.solo = TRUE], t1 |-> t, catalog |-> cat,
   items |-> <<>>, asked |-> 0]
NoLast == Finished(NoCall, NoRet, NoLoc, 0, -1)

\* ------------------------------------------------------------ the store
\* what the store answers to one statement: an error (with its code), or a
\* result carrying rows, affectedRows and insertId
DbError(c) == [ok |-> FALSE, code |-> c, rows |-> <<>>, affectedRows |-> 0, insertId |-> 0]
DbRows(rs) == [ok |-> TRUE, code |-> "none", rows |-> rs, affectedRows |-> 0, insertId |-> 0]
DbDone(n, id) == [ok |-> TRUE, code |-> "none", rows |-> <<>>, affectedRows |-> n, insertId |-> id]

Idle(p) == pc[p] = "idle"
\* a new request takes the first free slot (the slots are interchangeable)
Free(p) == pc[p] = "idle" /\ \A q \in Procs : q < p => pc[q] # "idle"
\* the call is about the observed pair: its user and its recipe, where it has
\* them, are the pair's
Concerns(c) == c.user_id \in {0, obsPair[1]} /\ c.recipe_id \in {0, obsPair[2]}
\* keep the record of a finished call about the observed pair
Observe(c, out, l, cat) ==
  last' = IF Concerns(c) THEN Finished(c, out, l, now, cat) ELSE last
AllIdle == \A q \in Procs : pc[q] = "idle"
\* the locals of a call that begins now
Begin == [NoLoc EXCEPT !.solo = AllIdle]
\* a step of request p (of a one-statement call: p = 0) is seen by every other
\* request in flight
Disturb(p, l) == [q \in Procs |-> IF q = p \/ pc[q] = "idle" THEN l[q]
                                  ELSE [l[q] EXCEPT !.solo = FALSE]]
\* ---------------------------------------------------------------- clock
Tick ==
  /\ now < MaxTime
  /\ now' = now + 1
  /\ UNCHANGED <<dbVars, procVars, agg, sess, last, obsVars>>

\* ------------------------------------------------------- Favorites Store
\* PRIMARY KEY (user_id, recipe_id) of favorite_recipes
FavoriteKeyTaken(tbl, u, r) == tbl[<<u, r>>] > 0

\* the same INSERT into a table without the primary key
InsertFavorite_NoKey(tbl, u, r, up) ==
  IF ~up THEN [res |-> DbError("ER_OTHER"), tbl |-> tbl]
  ELSE [res |-> DbDone(1, 0), tbl |-> [tbl EXCEPT ![<<u, r>>] = @ + 1]]

\* INSERT INTO favorite_recipes VALUES (u, r)
InsertFavorite(tbl, u, r, up) ==
  IF ~up THEN [res |-> DbError("ER_OTHER"), tbl |-> tbl]
  ELSE IF FavoriteKeyTaken(tbl, u, r) THEN [res |-> DbError("ER_DUP_ENTRY"), tbl |-> tbl]
  ELSE [res |-> DbDone(1, 0), tbl |-> [tbl EXCEPT ![<<u, r>>] = @ + 1]]

\* DELETE FROM favorite_recipes WHERE user_id=u AND recipe_id=r
DeleteFavorite(tbl, u, r, up) ==
  IF ~up THEN [res |-> DbError("ER_OTHER"), tbl |-> tbl]
  ELSE [res |-> DbDone(tbl[<<u, r>>], 0), tbl |-> [tbl EXCEPT ![<<u, r>>] = 0]]

\* the outcome of markAsFavorite from the store's answer to its INSERT
markAsFavoriteOutcome(res) ==
  IF res.ok THEN Returned("void")
  ELSE IF res.code = "ER_DUP_ENTRY" THEN Thrown(409, "Recipe is already in favorites")
  ELSE Thrown(500, "Failed to save recipe as favorite")

\* the outcome of removeFavorite from the store's answer to its DELETE
removeFavoriteOutcome(res) ==
  IF res.ok THEN Returned(res.affectedRows > 0)
  ELSE Thrown(500, "Failed to remove recipe from favorites")

\* the observer of the sequence add, add, remove, remove on obsPair: stage k
\* says the last k calls on the pair, each answered by the store, were the
\* first k calls of that sequence and the pair had no row before them
FavPattern == <<"markAsFavorite", "markAsFavorite", "removeFavorite", "removeFavorite">>
FavNextStage(k, op, hadRow, up) ==
  IF ~up THEN 0
  ELSE IF k < 4 /\ k > 0 /\ FavPattern[k + 1] = op THEN k + 1
  ELSE IF op = "markAsFavorite" /\ ~hadRow THEN 1
  ELSE 0

FavObserve(u, r, op, hadRow, up) ==
  favStage' = IF <<u, r>> = obsPair THEN FavNextStage(favStage, op, hadRow, up)
              ELSE favStage

markAsFavorite(u, r, up) ==
  LET ins == InsertFavorite(favorite_recipes, u, r, up)
      c == MkCall("markAsFavorite", u, r)
  IN /\ favorite_recipes' = ins.tbl
     /\ Observe(c, markAsFavoriteOutcome(ins.res), Begin, -1)
     /\ loc' = Disturb(0, loc)
     /\ FavObserve(u, r, c.op, FavoriteKeyTaken(favorite_recipes, u, r), up)
     /\ favAdded' = IF ins.res.ok THEN favAdded \cup {<<u, r>>} ELSE favAdded
     /\ UNCHANGED <<now, sess, agg, watched_recipes, recipe_likes, private_recipes, privateNextId,
                    family_recipes, familyNextId, pc, call,
                    obsPair, watchStage, viewOrder, likeStage, likeOrig, desStage, desVal>>

removeFavorite(u, r, up) ==
  LET del == DeleteFavorite(favorite_recipes, u, r, up)
      c == MkCall("removeFavorite", u, r)
  IN /\ favorite_recipes' = del.tbl
     /\ Observe(c, removeFavoriteOutcome(del.res), Begin, -1)
     /\ loc' = Disturb(0, loc)
     /\ FavObserve(u, r, c.op, FavoriteKeyTaken(favorite_recipes, u, r), up)
     /\ favAdded' = IF del.res.ok THEN favAdded \ {<<u, r>>} ELSE favAdded
     /\ UNCHANGED <<now, sess, agg, watched_recipes, recipe_likes, private_recipes, privateNextId,
                    family_recipes, familyNextId, pc, call,
                    obsPair, watchStage, viewOrder, likeStage, likeOrig, desStage, desVal>>

\* the rows WHERE user_id='u' selects: (recipe_id, which of the rows of the
\* pair)
FavoriteRows(tbl, u) ==
  UNION {{<<r, i>> : i \in 1..tbl[<<u, r>>]} : r \in Recipes}

\* the arrangements of a finite set in a list
Arrangements(S) ==
  {f \in [1..Cardinality(S) -> S] :
     \A i, j \in 1..Cardinality(S) : i # j => f[i] # f[j]}

\* the same SELECT without its WHERE
SelectFavoritesOf_AnyUser(tbl, u, up) ==
  IF ~up THEN {DbError("ER_OTHER")}
  ELSE {DbRows([i \in DOMAIN f |-> f[i][2]]) :
          f \in Arrangements(UNION {{<<v, x[1], x[2]>> : x \in FavoriteRows(tbl, v)} : v \in Users})}

\* SELECT recipe_id FROM favorite_recipes WHERE user_id='u': the store gives
\* the rows in an order of its own
SelectFavoritesOf(tbl, u, up) ==
  IF ~up THEN {DbError("ER_OTHER")}
  ELSE {DbRows([i \in DOMAIN f |-> f[i][1]]) : f \in Arrangements(FavoriteRows(tbl, u))}

\* getFavoriteRecipes: the one SELECT; its rows are returned as they came
getFavoriteRecipes(u, up) ==
  \E res \in SelectFavoritesOf(favorite_recipes, u, up) :
    LET out == IF res.ok THEN Returned(res.rows)
               ELSE Thrown(500, "Failed to retrieve favorite recipes")
    IN /\ Observe(MkCall("getFavoriteRecipes", u, 0), out, [Begin EXCEPT !.readOk = up], -1)
       /\ loc' = Disturb(0, loc)
       /\ UNCHANGED <<now, sess, agg, dbVars, pc, call, obsVars>>

\* --------------------------------------------------- Watch History Store
\* PRIMARY KEY (user_id, recipe_id) of watched_recipes
WatchedKeyTaken(tbl, u, r) == Len(tbl[<<u, r>>]) > 0

\* user_id = parseInt(user_id) is NaN for a caller with no identity, and
\* user_id=NaN in a statement names a column that watched_recipes has not
NamesNoColumn(u) == u \notin Users

\* SELECT 1 FROM watched_recipes WHERE user_id=u AND recipe_id=r
SelectWatched(tbl, u, r, up) ==
  IF ~up THEN DbError("ER_OTHER")
  ELSE IF NamesNoColumn(u) THEN DbError("ER_BAD_FIELD_ERROR")
  ELSE DbRows([i \in 1..Len(tbl[<<u, r>>]) |-> 1])

\* an UPDATE that matches the row and leaves its watched_at as it was
UpdateWatched_KeepsTime(tbl, u, r, t, up) ==
  IF ~up THEN [res |-> DbError("ER_OTHER"), tbl |-> tbl]
  ELSE [res |-> DbDone(Len(tbl[<<u, r>>]), 0), tbl |-> tbl]

\* UPDATE watched_recipes SET watched_at=CURRENT_TIMESTAMP WHERE user_id=u AND recipe_id=r
UpdateWatched(tbl, u, r, t, up) ==
  IF ~up THEN [res |-> DbError("ER_OTHER"), tbl |-> tbl]
  ELSE [res |-> DbDone(Len(tbl[<<u, r>>]), 0),
        tbl |-> [tbl EXCEPT ![<<u, r>>] = [i \in 1..Len(@) |-> t]]]

\* the same INSERT into a table without the primary key
InsertWatched_NoKey(tbl, u, r, t, up) ==
  IF ~up THEN [res |-> DbError("ER_OTHER"), tbl |-> tbl]
  ELSE [res |-> DbDone(1, 0), tbl |-> [tbl EXCEPT ![<<u, r>>] = Append(@, t)]]

\* INSERT INTO watched_recipes (user_id, recipe_id) VALUES (u, r); watched_at
\* takes its DEFAULT CURRENT_TIMESTAMP
InsertWatched(tbl, u, r, t, up) ==
  IF ~up THEN [res |-> DbError("ER_OTHER"), tbl |-> tbl]
  ELSE IF WatchedKeyTaken(tbl, u, r) THEN [res |-> DbError("ER_DUP_ENTRY"), tbl |-> tbl]
  ELSE [res |-> DbDone(1, 0), tbl |-> [tbl EXCEPT ![<<u, r>>] = Append(@, t)]]

\* the number of rows of user u
RECURSIVE WatchedRowsOf(_, _, _)
WatchedRowsOf(tbl, u, rs) ==
  IF rs = {} THEN 0
  ELSE LET r == CHOOSE x \in rs : TRUE
       IN Len(tbl[<<u, r>>]) + WatchedRowsOf(tbl, u, rs \ {r})

\* the rows WHERE user_id='u' selects: (recipe_id, watched_at, which of the
\* rows of the pair)
WatchedRows(tbl, u) ==
  UNION {{<<r, tbl[<<u, r>>][i], i>> : i \in 1..Len(tbl[<<u, r>>])} :
           r \in {x \in Recipes : <<u, x>> \in Pairs}}

\* a DELETE with no WHERE clause
DeleteWatched_All(tbl, u, up) ==
  IF ~up THEN [res |-> DbError("ER_OTHER"), tbl |-> tbl]
  ELSE [res |-> DbDone(Cardinality(UNION {{<<x>> \o row : row \in WatchedRows(tbl, x)} : x \in Users}), 0),
        tbl |-> [k \in Pairs |-> <<>>]]

\* DELETE FROM watched_recipes WHERE user_id='u'. For a caller with no
\* identity the statement reads user_id='undefined': it matches no row (no
\* user has the id that text converts to), or a strict store rejects it
\* (up = FALSE)
DeleteWatched(tbl, u, up) ==
  IF ~up THEN [res |-> DbError("ER_OTHER"), tbl |-> tbl]
  ELSE IF u \notin Users THEN [res |-> DbDone(0, 0), tbl |-> tbl]
  ELSE [res |-> DbDone(WatchedRowsOf(tbl, u, Recipes), 0),
        tbl |-> [k \in Pairs |-> IF k[1] = u THEN <<>> ELSE tbl[k]]]

\* the orders in which a set of rows can be listed
Perms(S) ==
  {f \in [1..Cardinality(S) -> S] :
     \A i, j \in 1..Cardinality(S) : i # j => f[i] # f[j]}

\* ORDER BY watched_at DESC: the store gives rows of equal watched_at in an
\* order of its own
OrderedByWatchedAt(rows) ==
  {f \in Perms(rows) : \A i, j \in DOMAIN f : i < j => f[i][2] >= f[j][2]}

\* a SELECT that ignores its LIMIT clause
Limit_None(rows, n) == rows

\* LIMIT n
Limit(rows, n) == SubSeq(rows, 1, IF n < Len(rows) THEN n ELSE Len(rows))

\* SELECT recipe_id FROM watched_recipes WHERE user_id='u' ORDER BY watched_at
\* DESC LIMIT n (n = -1: no LIMIT clause): the answers the store may give
SelectWatchedOf(tbl, u, n, up) ==
  IF ~up THEN {DbError("ER_OTHER")}
  ELSE {DbRows(IF n = -1 THEN [i \in DOMAIN f |-> f[i][1]]
               ELSE Limit([i \in DOMAIN f |-> f[i][1]], n)) :
          f \in OrderedByWatchedAt(WatchedRows(tbl, u))}

\* if (rows && rows.length > 0)
AlreadyWatched(res) == Len(res.rows) > 0

\* if (!user_id)
Unauthorized(user_id) == user_id = 0

\* limit = 3
DefaultLimit == 3
LimitOrDefault(limit) == IF limit = -1 THEN DefaultLimit ELSE limit

\* the observer of markAsWatched on obsPair: the number (up to 2) of the last
\* calls on the pair that succeeded with no other request stepping meanwhile
WatchNextStage(k, out, alone) ==
  IF out.thrown \/ ~alone THEN 0 ELSE IF k < 2 THEN k + 1 ELSE 2

\* the observer of the views of obsPair[1]: recipe r moves to the end
Viewed(order, r) == Append(SelectSeq(order, LAMBDA x : x # r), r)

\* markAsWatched up to its first await: the SELECT; a store error is caught
\* and thrown on with status 500
markAsWatched_select(p, u, r, up) ==
  LET res == SelectWatched(watched_recipes, u, r, up)
      c == MkCall("markAsWatched", u, r)
      l == [Begin EXCEPT !.exists = res.ok /\ AlreadyWatched(res), !.sent = 1]
  IN /\ Free(p)
     /\ IF res.ok
        THEN /\ pc' = [pc EXCEPT ![p] = "mw_write"]
             /\ call' = [call EXCEPT ![p] = c]
             /\ loc' = Disturb(p, [loc EXCEPT ![p] = l])
             /\ UNCHANGED <<last, watchStage, viewOrder>>
        ELSE /\ Observe(c, Thrown(500, "Failed to mark recipe as watched"), l, -1)
             /\ loc' = Disturb(p, loc)
             /\ watchStage' = IF <<u, r>> = obsPair THEN 0 ELSE watchStage
             /\ UNCHANGED <<pc, call, viewOrder>>
     /\ UNCHANGED <<now, sess, agg, dbVars, obsPair, favStage, favAdded, likeStage, likeOrig, desStage, desVal>>

\* the rest of markAsWatched: UPDATE when the SELECT found a row, else INSERT.
\* The view is recorded when the statement wrote the row (an UPDATE whose row
\* a deleteAllWatchedRecipes took away meanwhile matches nothing)
markAsWatched_write(p, up) ==
  LET c == call[p]
      w == IF loc[p].exists
           THEN UpdateWatched(watched_recipes, c.user_id, c.recipe_id, now, up)
           ELSE InsertWatched(watched_recipes, c.user_id, c.recipe_id, now, up)
      out == IF w.res.ok THEN Returned("void")
             ELSE Thrown(500, "Failed to mark recipe as watched")
  IN /\ pc[p] = "mw_write"
     /\ watched_recipes' = w.tbl
     /\ Observe(c, out, [loc[p] EXCEPT !.sent = 2], -1)
     /\ pc' = [pc EXCEPT ![p] = "idle"]
     /\ call' = [call EXCEPT ![p] = NoCall]
     /\ loc' = Disturb(p, [loc EXCEPT ![p] = NoLoc])
     /\ watchStage' = IF <<c.user_id, c.recipe_id>> = obsPair
                      THEN WatchNextStage(watchStage, out, loc[p].solo)
                      ELSE watchStage
     /\ viewOrder' = IF c.user_id = obsPair[1] /\ w.res.ok /\ w.res.affectedRows > 0
                     THEN Viewed(viewOrder, c.recipe_id)
                     ELSE viewOrder
     /\ UNCHANGED <<now, sess, agg, favorite_recipes, recipe_likes, private_recipes, privateNextId,
                    family_recipes, familyNextId, obsPair, favStage, favAdded, likeStage, likeOrig, desStage, desVal>>

\* getWatchedRecipes: the check of the identity, then the one SELECT
getWatchedRecipes(u, up) ==
  \E res \in SelectWatchedOf(watched_recipes, u, -1, up) :
    LET out == IF Unauthorized(u) THEN Thrown(401, "Unauthorized: user_id is required")
               ELSE IF res.ok THEN Returned(res.rows)
               ELSE Thrown(500, "Failed to retrieve watched recipes")
        l == [Begin EXCEPT !.sent = IF Unauthorized(u) THEN 0 ELSE 1]
    IN /\ Observe(MkCall("getWatchedRecipes", u, 0), out, l, -1)
       /\ loc' = Disturb(0, loc)
       /\ UNCHANGED <<now, sess, agg, dbVars, pc, call, obsVars>>

\* getLastWatchedRecipes: the same with LIMIT ${limit}
getLastWatchedRecipes(u, limit, up) ==
  \E res \in SelectWatchedOf(watched_recipes, u, LimitOrDefault(limit), up) :
    LET out == IF Unauthorized(u) THEN Thrown(401, "Unauthorized: user_id is required")
               ELSE IF res.ok THEN Returned(res.rows)
               ELSE Thrown(500, "Failed to retrieve recently watched recipes")
        l == [Begin EXCEPT !.sent = IF Unauthorized(u) THEN 0 ELSE 1]
    IN /\ Observe([MkCall("getLastWatchedRecipes", u, 0) EXCEPT !.limit = limit], out, l, -1)
       /\ loc' = Disturb(0, loc)
       /\ UNCHANGED <<now, sess, agg, dbVars, pc, call, obsVars>>

deleteAllWatchedRecipes(u, up) ==
  LET del == DeleteWatched(watched_recipes, u, up)
      out == IF del.res.ok THEN Returned(del.res.affectedRows)
             ELSE Thrown(500, "Failed to delete watched recipes history")
  IN /\ watched_recipes' = del.tbl
     /\ Observe(MkCall("deleteAllWatchedRecipes", u, 0), out, [Begin EXCEPT !.sent = 1], -1)
     /\ loc' = Disturb(0, loc)
     /\ watchStage' = IF u = obsPair[1] THEN 0 ELSE watchStage
     /\ viewOrder' = IF u = obsPair[1] /\ del.res.ok THEN <<>> ELSE viewOrder
     /\ UNCHANGED <<now, sess, agg, favorite_recipes, recipe_likes, private_recipes, privateNextId,
                    family_recipes, familyNextId, pc, call,
                    obsPair, favStage, favAdded, likeStage, likeOrig, desStage, desVal>>

\* ------------------------------------------------ Like Reconciliation Engine
\* a recipe_likes table with no key on (recipe_id, user_id)
LikeKeyUnique_Absent == FALSE

\* recipe_likes holds at most one row for a (recipe_id, user_id): the key that
\* INSERT IGNORE relies on
LikeKeyUnique == TRUE

\* the same INSERT without IGNORE
InsertIgnoreLike_NoIgnore(tbl, u, r, up) ==
  IF ~up THEN [res |-> DbError("ER_OTHER"), tbl |-> tbl]
  ELSE IF tbl[<<u, r>>] > 0 THEN [res |-> DbError("ER_DUP_ENTRY"), tbl |-> tbl]
  ELSE [res |-> DbDone(1, 0), tbl |-> [tbl EXCEPT ![<<u, r>>] = @ + 1]]

\* INSERT IGNORE INTO recipe_likes (recipe_id, user_id) VALUES (r, u)
InsertIgnoreLike(tbl, u, r, up) ==
  IF ~up THEN [res |-> DbError("ER_OTHER"), tbl |-> tbl]
  ELSE IF LikeKeyUnique /\ tbl[<<u, r>>] > 0 THEN [res |-> DbDone(0, 0), tbl |-> tbl]
  ELSE [res |-> DbDone(1, 0), tbl |-> [tbl EXCEPT ![<<u, r>>] = @ + 1]]

\* DELETE FROM recipe_likes WHERE recipe_id = r AND user_id = u
DeleteLike(tbl, u, r, up) ==
  IF ~up THEN [res |-> DbError("ER_OTHER"), tbl |-> tbl]
  ELSE [res |-> DbDone(tbl[<<u, r>>], 0), tbl |-> [tbl EXCEPT ![<<u, r>>] = 0]]

\* SELECT COUNT(*) as liked FROM recipe_likes WHERE recipe_id = r AND user_id = u
\* (no row carries the user_id of an absent user)
CountUserLike(tbl, u, r, up) ==
  IF ~up THEN DbError("ER_OTHER")
  ELSE DbRows(<<IF <<u, r>> \in Pairs THEN tbl[<<u, r>>] ELSE 0>>)

RECURSIVE LikeRowsOf(_, _, _)
LikeRowsOf(tbl, r, us) ==
  IF us = {} THEN 0
  ELSE LET u == CHOOSE x \in us : TRUE
       IN tbl[<<u, r>>] + LikeRowsOf(tbl, r, us \ {u})

\* SELECT COUNT(*) as userLikes FROM recipe_likes WHERE recipe_id = r
CountRecipeLikes(tbl, r, up) ==
  IF ~up THEN DbError("ER_OTHER") ELSE DbRows(<<LikeRowsOf(tbl, r, Users)>>)

\* the users that have a like row on r
Likers(tbl, r) == {u \in Users : tbl[<<u, r>>] > 0}

\* a check that takes a failed query for a like
hasUserLikedRecipeValue_Unsafe(res) == IF res.ok THEN res.rows[1] > 0 ELSE TRUE

\* hasUserLikedRecipe: result[0][0].liked > 0, and false when the query fails
hasUserLikedRecipeValue(res) == IF res.ok THEN res.rows[1] > 0 ELSE FALSE

\* like = currentlyLiked
Flip_Same(currentlyLiked) == currentlyLiked

\* like = !currentlyLiked
Flip(currentlyLiked) == ~currentlyLiked

\* a toggle that issues the DELETE whatever value it settled on
ToggleWrite_Unlike(tbl, u, r, like, up) == DeleteLike(tbl, u, r, up)

\* the statement toggleRecipeLike issues for the value it settled on
ToggleWrite(tbl, u, r, like, up) ==
  IF like THEN InsertIgnoreLike(tbl, u, r, up) ELSE DeleteLike(tbl, u, r, up)

\* what toggleRecipeLike answers: its message, or the store's error thrown on
ToggleOutcome(res, like) ==
  IF ~res.ok THEN Rethrown
  ELSE IF like THEN Returned("Recipe liked successfully")
  ELSE Returned("Recipe unliked successfully")

\* the observer of the toggles without a desired value on obsPair: the number
\* (up to 2) of the last calls on the pair that were such toggles, read and
\* wrote the store without error, with no other request stepping meanwhile
LikeObserve(c, out, l, liked) ==
  IF <<c.user_id, c.recipe_id>> # obsPair THEN UNCHANGED <<likeStage, likeOrig>>
  ELSE IF c.like # "undefined" \/ out.thrown \/ ~l.solo \/ ~l.readOk
       THEN likeStage' = 0 /\ likeOrig' = FALSE
  ELSE IF likeStage = 1 THEN likeStage' = 2 /\ likeOrig' = likeOrig
  ELSE likeStage' = 1 /\ likeOrig' = liked

\* the observer of the toggles with a desired value on obsPair: the number (up
\* to 2) of the last calls on the pair that carried the same desired value and
\* were answered by the store
DesObserve(c, like, up) ==
  IF <<c.user_id, c.recipe_id>> # obsPair THEN UNCHANGED <<desStage, desVal>>
  ELSE IF c.like = "undefined" \/ ~up THEN desStage' = 0 /\ desVal' = FALSE
  ELSE IF desStage > 0 /\ desVal = like THEN desStage' = 2 /\ desVal' = like
  ELSE desStage' = 1 /\ desVal' = like

\* a toggle whose write succeeds marks the toggles on the same pair that stand between
\* their read and their write and have read the same state as it did
MarkRaced(p, c, l, ls) ==
  [q \in Procs |->
     IF /\ q # p /\ pc[q] = "toggle_write" /\ pc[p] = "toggle_write"
        /\ call[q].user_id = c.user_id /\ call[q].recipe_id = c.recipe_id
        /\ ls[q].readOk /\ l.readOk /\ ls[q].currentlyLiked = l.currentlyLiked
     THEN [ls[q] EXCEPT !.raced = TRUE] ELSE ls[q]]

\* toggleRecipeLike with a desired value: one statement
toggleRecipeLike_desired(u, r, like, up) ==
  LET c == [MkCall("toggleRecipeLike", u, r) EXCEPT !.like = IF like THEN "true" ELSE "false"]
      w == ToggleWrite(recipe_likes, u, r, like, up)
      out == ToggleOutcome(w.res, like)
  IN /\ recipe_likes' = w.tbl
     /\ Observe(c, out, [Begin EXCEPT !.readOk = up], -1)
     /\ loc' = Disturb(0, loc)
     /\ LikeObserve(c, out, Begin, recipe_likes[<<u, r>>] > 0)
     /\ DesObserve(c, like, up)
     /\ UNCHANGED <<now, sess, agg, favorite_recipes, watched_recipes, private_recipes, privateNextId,
                    family_recipes, familyNextId, pc, call,
                    obsPair, favStage, favAdded, watchStage, viewOrder>>

\* toggleRecipeLike without one, up to its write: hasUserLikedRecipe reads the
\* current state
toggleRecipeLike_read(p, u, r, up) ==
  LET res == CountUserLike(recipe_likes, u, r, up)
      l == [Begin EXCEPT !.currentlyLiked = hasUserLikedRecipeValue(res), !.readOk = res.ok]
  IN /\ Free(p)
     /\ pc' = [pc EXCEPT ![p] = "toggle_write"]
     /\ call' = [call EXCEPT ![p] = MkCall("toggleRecipeLike", u, r)]
     /\ loc' = Disturb(p, [loc EXCEPT ![p] = l])
     /\ UNCHANGED <<now, sess, agg, dbVars, last, obsVars>>

\* the rest of it: the INSERT IGNORE or the DELETE for the flipped value
toggleRecipeLike_write(p, up) ==
  LET c == call[p]
      like == Flip(loc[p].currentlyLiked)
      w == ToggleWrite(recipe_likes, c.user_id, c.recipe_id, like, up)
      out == ToggleOutcome(w.res, like)
  IN /\ pc[p] = "toggle_write"
     /\ recipe_likes' = w.tbl
     /\ Observe(c, out, loc[p], -1)
     /\ pc' = [pc EXCEPT ![p] = "idle"]
     /\ call' = [call EXCEPT ![p] = NoCall]
     /\ loc' = Disturb(p, [(IF w.res.ok THEN MarkRaced(p, c, loc[p], loc) ELSE loc)
                             EXCEPT ![p] = NoLoc])
     /\ LikeObserve(c, out, loc[p], recipe_likes[<<c.user_id, c.recipe_id>>] > 0)
     /\ DesObserve(c, like, up)
     /\ UNCHANGED <<now, sess, agg, favorite_recipes, watched_recipes, private_recipes, privateNextId,
                    family_recipes, familyNextId, obsPair, favStage, favAdded, watchStage, viewOrder>>

\* hasUserLikedRecipe called on its own
hasUserLikedRecipe(u, r, up) ==
  LET res == CountUserLike(recipe_likes, u, r, up)
  IN /\ Observe(MkCall("hasUserLikedRecipe", u, r), Returned(hasUserLikedRecipeValue(res)),
                [Begin EXCEPT !.readOk = res.ok], -1)
     /\ loc' = Disturb(0, loc)
     /\ UNCHANGED <<now, sess, agg, dbVars, pc, call, obsVars>>

\* a count that leaves the catalog's popularity out
SpoonacularLikes_Dropped(aggregateLikes) == 0

\* parseInt(recipeInfo.data.aggregateLikes) || 0
SpoonacularLikes(aggregateLikes) == IF aggregateLikes = 0 THEN 0 ELSE aggregateLikes

\* a catch that keeps what the failed catalog call carried
CatalogLikes_Kept(answered, aggregateLikes) == SpoonacularLikes(aggregateLikes)

\* let spoonacularLikes = 0; try { ... } catch (apiError) { keep as 0 }
CatalogLikes(answered, aggregateLikes) ==
  IF answered THEN SpoonacularLikes(aggregateLikes) ELSE 0

\* getRecipeLikesCount up to the catalog call: the COUNT(*) of the recipe's
\* rows; when the query fails the outer catch returns 0
getRecipeLikesCount_count(p, r, up) ==
  LET res == CountRecipeLikes(recipe_likes, r, up)
      c == MkCall("getRecipeLikesCount", 0, r)
      l == [Begin EXCEPT !.readOk = res.ok,
                         !.userLikes = IF res.ok THEN res.rows[1] ELSE 0,
                         !.likers = Cardinality(Likers(recipe_likes, r))]
  IN /\ Free(p)
     /\ IF res.ok
        THEN /\ pc' = [pc EXCEPT ![p] = "count_catalog"]
             /\ call' = [call EXCEPT ![p] = c]
             /\ loc' = Disturb(p, [loc EXCEPT ![p] = l])
             /\ UNCHANGED last
        ELSE /\ Observe(c, Returned(0), l, -1)
             /\ loc' = Disturb(p, loc)
             /\ UNCHANGED <<pc, call>>
     /\ UNCHANGED <<now, sess, agg, dbVars, obsVars>>

\* the rest of it: the catalog answers with aggregateLikes, or fails and the
\* count goes on with 0
getRecipeLikesCount_catalog(p, answered, aggregateLikes) ==
  LET spoonacularLikes == CatalogLikes(answered, aggregateLikes)
      totalLikes == spoonacularLikes + loc[p].userLikes
  IN /\ pc[p] = "count_catalog"
     /\ Observe(call[p], Returned(totalLikes), loc[p], IF answered THEN aggregateLikes ELSE -1)
     /\ pc' = [pc EXCEPT ![p] = "idle"]
     /\ call' = [call EXCEPT ![p] = NoCall]
     /\ loc' = Disturb(p, [loc EXCEPT ![p] = NoLoc])
     /\ UNCHANGED <<now, sess, agg, dbVars, obsVars>>

\* ------------------------------------------------- text through JSON and SQL
\* JSON.stringify of a string: quoted, with " and \ escaped
RECURSIVE JsonEscape(_)
JsonEscape(t) ==
  IF t = <<>> THEN <<>>
  ELSE (IF Head(t) \in {DQ, BS} THEN <<BS, Head(t)>> ELSE <<Head(t)>>) \o JsonEscape(Tail(t))

RECURSIVE JsonElems(_)
JsonElems(l) ==
  IF l = <<>> THEN <<>>
  ELSE <<DQ>> \o JsonEscape(Head(l)) \o <<DQ>>
       \o (IF Tail(l) = <<>> THEN <<>> ELSE <<",">> \o JsonElems(Tail(l)))

\* JSON.stringify of a list of strings
JsonStringify(l) == <<"[">> \o JsonElems(l) \o <<"]">>

\* the rest of a JSON string after its opening quote: the string it denotes
\* and the text that follows it, or a SyntaxError
RECURSIVE JsonScanString(_, _)
JsonScanString(t, acc) ==
  IF t = <<>> THEN [ok |-> FALSE, str |-> <<>>, rest |-> <<>>]
  ELSE IF Head(t) = DQ THEN [ok |-> TRUE, str |-> acc, rest |-> Tail(t)]
  ELSE IF Head(t) = BS
       THEN IF Len(t) >= 2 /\ t[2] \in {DQ, BS}
            THEN JsonScanString(Tail(Tail(t)), Append(acc, t[2]))
            ELSE [ok |-> FALSE, str |-> <<>>, rest |-> <<>>]
  ELSE JsonScanString(Tail(t), Append(acc, Head(t)))

\* the elements of a JSON array after its [ or after a comma
RECURSIVE JsonScanElems(_, _)
JsonScanElems(t, acc) ==
  IF t = <<>> \/ Head(t) # DQ THEN [ok |-> FALSE, value |-> <<>>]
  ELSE LET s == JsonScanString(Tail(t), <<>>)
       IN IF ~s.ok \/ s.rest = <<>> THEN [ok |-> FALSE, value |-> <<>>]
          ELSE IF Head(s.rest) = "]"
               THEN IF Len(s.rest) = 1 THEN [ok |-> TRUE, value |-> Append(acc, s.str)]
                    ELSE [ok |-> FALSE, value |-> <<>>]
          ELSE IF Head(s.rest) = ","
               THEN JsonScanElems(Tail(s.rest), Append(acc, s.str))
          ELSE [ok |-> FALSE, value |-> <<>>]

\* JSON.parse of the text of a list of strings: the list, or a SyntaxError
JsonParse(t) ==
  IF t = <<>> \/ Head(t) # "[" THEN [ok |-> FALSE, value |-> <<>>]
  ELSE IF Tail(t) = <<"]">> THEN [ok |-> TRUE, value |-> <<>>]
  ELSE JsonScanElems(Tail(t), <<>>)

\* what MySQL reads from a text put between single quotes in a statement: a
\* backslash takes the next character as it is, two quotes are one quote, and
\* a lone quote (or a backslash before the closing quote) ends the literal in
\* the wrong place, which the parser rejects
RECURSIVE SqlQuoted(_)
SqlQuoted(t) ==
  IF t = <<>> THEN [ok |-> TRUE, text |-> <<>>]
  ELSE IF Head(t) = BS
       THEN IF Len(t) = 1 THEN [ok |-> FALSE, text |-> <<>>]
            ELSE LET rest == SqlQuoted(Tail(Tail(t)))
                 IN [ok |-> rest.ok, text |-> <<t[2]>> \o rest.text]
  ELSE IF Head(t) = SQ
       THEN IF Len(t) >= 2 /\ t[2] = SQ
            THEN LET rest == SqlQuoted(Tail(Tail(t)))
                 IN [ok |-> rest.ok, text |-> <<SQ>> \o rest.text]
            ELSE [ok |-> FALSE, text |-> <<>>]
  ELSE LET rest == SqlQuoted(Tail(t))
       IN [ok |-> rest.ok, text |-> <<Head(t)>> \o rest.text]

\* -------------------------------------------------- Private Recipe Store
\* a check of the required fields that lets every request through
PrivateFieldsMissing_Never(f) == FALSE

\* !title || !servings
PrivateFieldsMissing(f) ==
  f.title = Undefined \/ f.title = <<>> \/ f.servings = -1 \/ f.servings = 0

\* ingredients || []
IngredientsOrEmpty(f) == IF f.ingredients = UndefinedList THEN <<>> ELSE f.ingredients

\* INSERT INTO private_recipes (user_id, title, ..., ingredients, ..., servings)
\* VALUES ('u', 'title', ..., 'ingredientsJson', ..., 'servings'): the values
\* are pasted between quotes into the statement
InsertPrivate(tbl, nextId, u, f, ingredientsJson, up) ==
  LET title == SqlQuoted(f.title)
      ingredients == SqlQuoted(ingredientsJson)
  IN IF ~up THEN [res |-> DbError("ER_OTHER"), tbl |-> tbl, nextId |-> nextId]
     ELSE IF ~title.ok \/ ~ingredients.ok
          THEN [res |-> DbError("ER_PARSE_ERROR"), tbl |-> tbl, nextId |-> nextId]
     ELSE [res |-> DbDone(1, nextId),
           tbl |-> tbl \cup {[recipe_id |-> nextId, user_id |-> u, title |-> title.text,
                              ingredients |-> ingredients.text, servings |-> f.servings,
                              given |-> f]},
           nextId |-> nextId + 1]

\* the same selection without its condition on the owner
SelectPrivate_AnyOwner(tbl, id, u, up) ==
  IF ~up THEN DbError("ER_OTHER")
  ELSE DbRows({row \in tbl : row.recipe_id = id})

\* SELECT * FROM private_recipes WHERE recipe_id='id' AND user_id='u'
SelectPrivate(tbl, id, u, up) ==
  IF ~up THEN DbError("ER_OTHER")
  ELSE DbRows({row \in tbl : row.recipe_id = id /\ row.user_id = u})

\* addPrivateRecipe: one statement, after the check of the required fields;
\* an error of the store is thrown on with status 500
addPrivateRecipe(u, f, up) ==
  LET c == [MkCall("addPrivateRecipe", u, 0) EXCEPT !.fields = f]
      ins == InsertPrivate(private_recipes, privateNextId, u, f,
                           JsonStringify(IngredientsOrEmpty(f)), up)
      l == [Begin EXCEPT !.readOk = up]
  IN /\ privateNextId <= MaxPrivate
     /\ IF PrivateFieldsMissing(f)
        THEN /\ last' = Finished(c, Thrown(400, "Missing required parameters"), l, now, -1)
             /\ UNCHANGED <<private_recipes, privateNextId>>
        ELSE /\ private_recipes' = ins.tbl
             /\ privateNextId' = ins.nextId
             /\ last' = Finished(c, IF ins.res.ok THEN Returned(ins.res.insertId)
                                    ELSE Thrown(500, "Failed to create private recipe"),
                                 l, now, -1)
     /\ loc' = Disturb(0, loc)
     /\ UNCHANGED <<now, sess, agg, favorite_recipes, watched_recipes, recipe_likes,
                    family_recipes, familyNextId, pc, call, obsVars>>

\* the recipe getPrivateRecipeDetails builds from the row it found: the
\* ingredients are parsed back, and a text that does not parse is a 404
PrivateDetails(row) ==
  LET parsed == IF row.ingredients = <<>> THEN [ok |-> TRUE, value |-> <<>>]
                ELSE JsonParse(row.ingredients)
  IN IF ~parsed.ok THEN Thrown(404, "Private recipe not found")
     ELSE Returned([id |-> row.recipe_id, title |-> row.title,
                    ingredients |-> parsed.value, servings |-> row.servings])

\* getPrivateRecipeDetails: one statement
getPrivateRecipeDetails(id, u, up) ==
  LET res == SelectPrivate(private_recipes, id, u, up)
      out == IF ~res.ok THEN Thrown(500, "Failed to retrieve private recipe details")
             ELSE IF res.rows = {} THEN Thrown(404, "Private recipe not found")
             ELSE PrivateDetails(CHOOSE row \in res.rows : TRUE)
  IN /\ last' = Finished(MkCall("getPrivateRecipeDetails", u, id), out,
                         [Begin EXCEPT !.readOk = up], now, -1)
     /\ loc' = Disturb(0, loc)
     /\ UNCHANGED <<now, sess, agg, dbVars, pc, call, obsVars>>

\* --------------------------------------------------- Family Recipe Store
\* a family call is recorded when it is made by the observed user
ObserveFamily(c, out, l) ==
  last' = IF c.user_id = obsPair[1] THEN Finished(c, out, l, now, -1) ELSE last

\* !recipe_name || !owner_name || !instructions || !ingredients (an empty
\* list is not a missing one)
FamilyFieldsMissing(f) ==
  \/ f.recipe_name = Undefined \/ f.recipe_name = <<>>
  \/ f.owner_name = Undefined \/ f.owner_name = <<>>
  \/ f.instructions = Undefined \/ f.instructions = <<>>
  \/ f.ingredients = UndefinedList

\* when_to_prepare || ""
TextOrEmpty(t) == IF t = Undefined THEN <<>> ELSE t

\* INSERT INTO family_recipes (...) VALUES ('u', 'recipe_name', ...,
\* 'ingredientsJson', ...): the values are pasted between quotes
InsertFamily(tbl, nextId, u, f, ingredientsJson, up) ==
  LET recipe_name == SqlQuoted(f.recipe_name)
      owner_name == SqlQuoted(f.owner_name)
      when_to_prepare == SqlQuoted(TextOrEmpty(f.when_to_prepare))
      ingredients == SqlQuoted(ingredientsJson)
      instructions == SqlQuoted(f.instructions)
  IN IF ~up THEN [res |-> DbError("ER_OTHER"), tbl |-> tbl, nextId |-> nextId]
     ELSE IF ~recipe_name.ok \/ ~owner_name.ok \/ ~when_to_prepare.ok
             \/ ~ingredients.ok \/ ~instructions.ok
          THEN [res |-> DbError("ER_PARSE_ERROR"), tbl |-> tbl, nextId |-> nextId]
     ELSE [res |-> DbDone(1, nextId),
           tbl |-> tbl \cup {[recipe_id |-> nextId, user_id |-> u,
                              ingredients |-> ingredients.text, given |-> f.ingredients]},
           nextId |-> nextId + 1]

\* INSERT INTO family_recipes (...) VALUES (?, ?, ?, ?, ?, ?, ?) with the
\* values bound: the store keeps each text as it is (a when_to_prepare that
\* was not given is bound as it is; a store that refuses it is up = FALSE)
InsertFamilyBound(tbl, nextId, u, f, ingredientsJson, up) ==
  IF ~up THEN [res |-> DbError("ER_OTHER"), tbl |-> tbl, nextId |-> nextId]
  ELSE [res |-> DbDone(1, nextId),
        tbl |-> tbl \cup {[recipe_id |-> nextId, user_id |-> u,
                           ingredients |-> ingredientsJson, given |-> f.ingredients]},
        nextId |-> nextId + 1]

\* addFamilyRecipe as it stands beside deleteFamilyRecipe: the missing-field
\* 400 is thrown on, any other error becomes the 500
addFamilyRecipe(u, f, up) ==
  LET c == [MkCall("addFamilyRecipe", u, 0) EXCEPT !.fields = f]
      ins == InsertFamily(family_recipes, familyNextId, u, f,
                          JsonStringify(IngredientsOrEmpty(f)), up)
      l == [Begin EXCEPT !.readOk = up]
  IN /\ familyNextId <= MaxFamily
     /\ IF FamilyFieldsMissing(f)
        THEN /\ ObserveFamily(c, Thrown(400, "Missing required parameters"), l)
             /\ UNCHANGED <<family_recipes, familyNextId>>
        ELSE /\ family_recipes' = ins.tbl
             /\ familyNextId' = ins.nextId
             /\ ObserveFamily(c, IF ins.res.ok THEN Returned(ins.res.insertId)
                                 ELSE Thrown(500, "Failed to create family recipe"), l)
     /\ loc' = Disturb(0, loc)
     /\ UNCHANGED <<now, sess, agg, favorite_recipes, watched_recipes, recipe_likes,
                    private_recipes, privateNextId, pc, call, obsVars>>

\* addFamilyRecipe with bound values: its catch turns every error, the
\* missing-field 400 included, into the 500
addFamilyRecipe_bound(u, f, up) ==
  LET c == [MkCall("addFamilyRecipe", u, 0) EXCEPT !.fields = f]
      ins == InsertFamilyBound(family_recipes, familyNextId, u, f,
                               JsonStringify(f.ingredients), up)
      l == [Begin EXCEPT !.readOk = up]
  IN /\ familyNextId <= MaxFamily
     /\ IF FamilyFieldsMissing(f)
        THEN /\ ObserveFamily(c, Thrown(500, "Failed to create family recipe"), l)
             /\ UNCHANGED <<family_recipes, familyNextId>>
        ELSE /\ family_recipes' = ins.tbl
             /\ familyNextId' = ins.nextId
             /\ ObserveFamily(c, IF ins.res.ok THEN Returned(ins.res.insertId)
                                 ELSE Thrown(500, "Failed to create family recipe"), l)
     /\ loc' = Disturb(0, loc)
     /\ UNCHANGED <<now, sess, agg, favorite_recipes, watched_recipes, recipe_likes,
                    private_recipes, privateNextId, pc, call, obsVars>>

\* the same SELECT without its user_id condition
SelectFamily_AnyOwner(tbl, id, u, up) ==
  IF ~up THEN DbError("ER_OTHER")
  ELSE DbRows({row \in tbl : row.recipe_id = id})

\* SELECT * FROM family_recipes WHERE recipe_id=id AND user_id=u
SelectFamily(tbl, id, u, up) ==
  IF ~up THEN DbError("ER_OTHER")
  ELSE DbRows({row \in tbl : row.recipe_id = id /\ row.user_id = u})

\* SELECT * FROM family_recipes WHERE user_id=u
SelectFamilyOf(tbl, u, up) ==
  IF ~up THEN DbError("ER_OTHER") ELSE DbRows({row \in tbl : row.user_id = u})

\* the same DELETE without its recipe_id condition
DeleteFamily_OfUser(tbl, id, u, up) ==
  LET gone == {row \in tbl : row.user_id = u}
  IN IF ~up THEN [res |-> DbError("ER_OTHER"), tbl |-> tbl]
     ELSE [res |-> DbDone(Cardinality(gone), 0), tbl |-> tbl \ gone]

\* DELETE FROM family_recipes WHERE recipe_id=id AND user_id=u
DeleteFamily(tbl, id, u, up) ==
  LET gone == {row \in tbl : row.recipe_id = id /\ row.user_id = u}
  IN IF ~up THEN [res |-> DbError("ER_OTHER"), tbl |-> tbl]
     ELSE [res |-> DbDone(Cardinality(gone), 0), tbl |-> tbl \ gone]

\* deleteFamilyRecipe up to its DELETE: the check that the recipe is the
\* caller's
deleteFamilyRecipe_select(p, u, id, up) ==
  LET res == SelectFamily(family_recipes, id, u, up)
      c == MkCall("deleteFamilyRecipe", u, id)
      l == [Begin EXCEPT !.readOk = res.ok, !.exists = res.ok /\ res.rows # {}]
  IN /\ Free(p)
     /\ IF res.ok /\ res.rows # {}
        THEN /\ pc' = [pc EXCEPT ![p] = "delete_family"]
             /\ call' = [call EXCEPT ![p] = c]
             /\ loc' = Disturb(p, [loc EXCEPT ![p] = l])
             /\ UNCHANGED last
        ELSE /\ ObserveFamily(c, IF res.ok
                                 THEN Thrown(404, "Family recipe not found or doesn't belong to you")
                                 ELSE Thrown(500, "Failed to delete family recipe"), l)
             /\ loc' = Disturb(p, loc)
             /\ UNCHANGED <<pc, call>>
     /\ UNCHANGED <<now, sess, agg, dbVars, obsVars>>

\* the rest of it: the DELETE, and true whatever it removed
deleteFamilyRecipe_delete(p, up) ==
  LET c == call[p]
      del == DeleteFamily(family_recipes, c.recipe_id, c.user_id, up)
  IN /\ pc[p] = "delete_family"
     /\ family_recipes' = del.tbl
     /\ ObserveFamily(c, IF del.res.ok THEN Returned(TRUE)
                         ELSE Thrown(500, "Failed to delete family recipe"), loc[p])
     /\ pc' = [pc EXCEPT ![p] = "idle"]
     /\ call' = [call EXCEPT ![p] = NoCall]
     /\ loc' = Disturb(p, [loc EXCEPT ![p] = NoLoc])
     /\ UNCHANGED <<now, sess, agg, favorite_recipes, watched_recipes, recipe_likes,
                    private_recipes, privateNextId, familyNextId, obsVars>>

\* family_recipes.map(recipe => ({..., ingredients: JSON.parse(recipe.ingredients)}))
FamilySummaries(rows) ==
  IF \E row \in rows : ~JsonParse(row.ingredients).ok
  THEN Thrown(0, "SyntaxError")
  ELSE Returned({[id |-> row.recipe_id, ingredients |-> JsonParse(row.ingredients).value]
                   : row \in rows})

\* getAllFamilyRecipes: one statement; nothing catches its errors
getAllFamilyRecipes(u, up) ==
  LET res == SelectFamilyOf(family_recipes, u, up)
      out == IF ~res.ok THEN Rethrown
             ELSE IF Cardinality(res.rows) < 3
                  THEN Thrown(204, "There are less than 3 family recipes")
             ELSE FamilySummaries(res.rows)
  IN /\ ObserveFamily(MkCall("getAllFamilyRecipes", u, 0), out, [Begin EXCEPT !.readOk = up])
     /\ loc' = Disturb(0, loc)
     /\ UNCHANGED <<now, sess, agg, dbVars, pc, call, obsVars>>

\* the recipe getFamilyRecipeDetails builds from the row it found:
\* ingredients: JSON.parse(recipe.ingredients), whose SyntaxError nothing catches
FamilyDetails(row) ==
  LET parsed == JsonParse(row.ingredients)
  IN IF ~parsed.ok THEN Thrown(0, "SyntaxError")
     ELSE Returned([id |-> row.recipe_id, ingredients |-> parsed.value])

\* getFamilyRecipeDetails: the check of the identity, then one statement;
\* nothing catches the errors of the store
getFamilyRecipeDetails(id, u, up) ==
  LET res == SelectFamily(family_recipes, id, u, up)
      out == IF Unauthorized(u) THEN Thrown(401, "Unauthorized: user_id is required")
             ELSE IF ~res.ok THEN Rethrown
             ELSE IF res.rows = {} THEN Thrown(404, "Family recipe not found")
             ELSE FamilyDetails(CHOOSE row \in res.rows : TRUE)
  IN /\ ObserveFamily(MkCall("getFamilyRecipeDetails", u, id), out, [Begin EXCEPT !.readOk = up])
     /\ loc' = Disturb(0, loc)
     /\ UNCHANGED <<now, sess, agg, dbVars, pc, call, obsVars>>

\* ------------------------------------------------------ session and search
\* req.session of a caller: user_id (0: nobody is logged in) and lastSearch
\* (set: the property has been assigned). performed is the observer of the
\* session: the results of its latest search that ended while a user was
\* logged in
Unset == [set |-> FALSE, value |-> <<>>]
Stored(v) == [set |-> TRUE, value |-> v]
NoSession == [user_id |-> 0, lastSearch |-> Unset, performed |-> Unset]

\* a search route that stores the results of every caller
LoggedIn_Always(session) == TRUE

\* req.session && req.session.user_id
LoggedIn(session) == session.user_id # 0

\* req.session.lastSearch || []
LastSearchOrEmpty(session) ==
  IF session.lastSearch.set THEN session.lastSearch.value ELSE <<>>

\* a user logs in through the session: its user_id is set
login(s, u) ==
  /\ sess[s].user_id = 0
  /\ sess' = [sess EXCEPT ![s].user_id = u]
  /\ UNCHANGED <<now, dbVars, procVars, agg, last, obsVars>>

\* the user logs out: the user_id goes, and the session is either kept or
\* started afresh
logout(s, reset) ==
  /\ sess[s].user_id # 0
  /\ sess' = [sess EXCEPT ![s] = IF reset THEN NoSession ELSE [@ EXCEPT !.user_id = 0]]
  /\ UNCHANGED <<now, dbVars, procVars, agg, last, obsVars>>

\* GET /recipes/search once searchRecipes has ended: an error goes to
\* next(error); the results of a logged-in caller are put in its session
search(s, answered, results) ==
  /\ sess' = [sess EXCEPT ![s] =
               IF ~answered THEN @
               ELSE [@ EXCEPT !.lastSearch = IF LoggedIn(sess[s]) THEN Stored(results) ELSE @,
                              !.performed = IF sess[s].user_id # 0 THEN Stored(results) ELSE @]]
  /\ last' = Finished(MkCall("search", sess[s].user_id, 0),
                      IF answered THEN Returned(results) ELSE Rethrown, NoLoc, now, -1)
  /\ UNCHANGED <<now, dbVars, procVars, agg, obsVars>>

\* GET /users/lastSearch behind auth.authenticate: 401 when nobody is logged
\* in, the error of the SELECT on users, 401 when the user has no row, and
\* then the stored results
lastSearch(s, up, found) ==
  LET out == IF ~LoggedIn(sess[s]) THEN Thrown(401, "Unauthorized - User not logged in")
             ELSE IF ~up THEN Rethrown
             ELSE IF ~found THEN Thrown(401, "User not found")
             ELSE Returned(LastSearchOrEmpty(sess[s]))
  IN /\ last' = Finished(MkCall("lastSearch", sess[s].user_id, 0), out,
                         [NoLoc EXCEPT !.readOk = up], now, -1)
     /\ UNCHANGED <<now, sess, dbVars, procVars, agg, obsVars>>

\* ------------------------------------------------------ Recipe Aggregator
\* the aggregator call in flight: its operation and arguments, where it
\* stands (search: waiting for complexSearch; items: waiting for its items),
\* one item for each recipe id it works on, in the order of its input, and
\* the number of requests it has sent to the catalog
NoAgg == [op |-> "none", user_id |-> 0, query |-> Undefined, stage |-> "idle",
          items |-> <<>>, asked |-> 0]

\* an item whose getRecipeInformation request is out. infoOk: the catalog
\* answered it; error: its callback caught an error; catalog: the aggregateLikes it reported (-1: none); countOk,
\* userLikes, likers: what the COUNT of the recipe's likes gave; aggregateLikes:
\* the popularity in the metadata the first catalog call fetched; likedAsked,
\* likedOk: the lookup of the user's like was made, was answered
Item(id) ==
  [id |-> id, stage |-> "info", infoOk |-> FALSE, error |-> FALSE,
   catalog |-> -1, popularity |-> 0, aggregateLikes |-> -1,
   countOk |-> FALSE, userLikes |-> 0, likers |-> 0,
   likedAsked |-> FALSE, likedOk |-> FALSE, userHasLiked |-> FALSE]

Items(ids) == [i \in 1..Len(ids) |-> Item(ids[i])]

\* the lists of recipe ids a batch is asked for
RECURSIVE BatchesUpTo(_)
BatchesUpTo(n) ==
  IF n = 0 THEN {<<>>}
  ELSE LET shorter == BatchesUpTo(n - 1)
       IN shorter \cup {Append(l, r) : l \in shorter, r \in Recipes}
Batches == BatchesUpTo(MaxBatch)

\* an error of the catalog client thrown on as it came
CatalogError == [thrown |-> TRUE, status |-> 0, value |-> "none", message |-> "catalog error"]

\* what the callback of the map returns for an item: the preview, or the
\* placeholder that carries error: true
PreviewOf(item) ==
  IF ~item.error
  THEN [id |-> item.id, popularity |-> item.popularity,
        userHasLiked |-> item.userHasLiked, error |-> FALSE]
  ELSE [id |-> item.id, popularity |-> 0, userHasLiked |-> FALSE, error |-> TRUE]

\* a return that hands the placeholders on
FilterErrors_Keep(recipes_info) == recipes_info

\* recipes_info.filter((recipe) => !recipe.error)
FilterErrors(recipes_info) == SelectSeq(recipes_info, LAMBDA recipe : ~recipe.error)

\* the record kept of a finished aggregator call
FinishedAgg(a, out) ==
  [Finished([MkCall(a.op, a.user_id, 0) EXCEPT !.fields.query = a.query],
            out, NoLoc, now, -1)
     EXCEPT !.items = a.items, !.asked = a.asked]

\* a check of the query that lets every request through
QueryMissing_Never(query) == FALSE

\* !query
QueryMissing(query) == query = Undefined \/ query = <<>>

\* getRecipesPreview up to its await: one getRecipeInformation request goes
\* out for each id of the list
getRecipesPreview_begin(ids) ==
  /\ agg = NoAgg
  /\ agg' = [NoAgg EXCEPT !.op = "getRecipesPreview", !.stage = "items",
                          !.items = Items(ids), !.asked = Len(ids)]
  /\ last' = NoLast
  /\ UNCHANGED <<now, sess, dbVars, procVars, obsVars>>

\* searchRecipes up to its await: the 400 for a missing query, else the
\* complexSearch request goes out
searchRecipes_begin(query) ==
  /\ agg = NoAgg
  /\ IF QueryMissing(query)
     THEN /\ last' = FinishedAgg([NoAgg EXCEPT !.op = "searchRecipes", !.query = query],
                                 Thrown(400, "Query parameter is missing"))
          /\ UNCHANGED agg
     ELSE /\ agg' = [NoAgg EXCEPT !.op = "searchRecipes", !.query = query,
                                  !.stage = "search", !.asked = 1]
          /\ last' = NoLast
  /\ UNCHANGED <<now, sess, dbVars, procVars, obsVars>>

\* the answer to complexSearch: an error is thrown on; no result is the empty
\* list; else getRecipesPreview starts on the ids of the results
searchRecipes_results(answered, ids) ==
  /\ agg.op = "searchRecipes" /\ agg.stage = "search"
  /\ IF ~answered
     THEN last' = FinishedAgg(agg, CatalogError) /\ agg' = NoAgg
     ELSE IF ids = <<>>
          THEN last' = FinishedAgg(agg, Returned(<<>>)) /\ agg' = NoAgg
     ELSE /\ agg' = [agg EXCEPT !.stage = "items", !.items = Items(ids),
                                !.asked = @ + Len(ids)]
          /\ UNCHANGED last
  /\ UNCHANGED <<now, sess, dbVars, procVars, obsVars>>

\* the item after the answer to its getRecipeInformation request, in a batch
\* of plain previews: popularity is the aggregateLikes reported
ItemAfterInfo(item, answered, aggregateLikes) ==
  IF answered
  THEN [item EXCEPT !.stage = "done", !.infoOk = TRUE, !.catalog = aggregateLikes,
                    !.popularity = aggregateLikes]
  ELSE [item EXCEPT !.stage = "done", !.error = TRUE]

\* the catalog answers the request of item i, or fails it
getRecipeInformation_answer(i, answered, aggregateLikes) ==
  /\ agg.op \in {"getRecipesPreview", "searchRecipes"} /\ agg.stage = "items"
  /\ i \in 1..Len(agg.items) /\ agg.items[i].stage = "info"
  /\ agg' = [agg EXCEPT !.items[i] = ItemAfterInfo(@, answered, aggregateLikes)]
  /\ UNCHANGED <<now, sess, dbVars, procVars, last, obsVars>>

\* Promise.all has all its items: the previews without the placeholders
getRecipesPreview_return ==
  /\ agg.op \in {"getRecipesPreview", "searchRecipes"} /\ agg.stage = "items"
  /\ \A i \in 1..Len(agg.items) : agg.items[i].stage = "done"
  /\ last' = FinishedAgg(agg, Returned(FilterErrors(
                 [i \in 1..Len(agg.items) |-> PreviewOf(agg.items[i])])))
  /\ agg' = NoAgg
  /\ UNCHANGED <<now, sess, dbVars, procVars, obsVars>>

\* --------------------------------------- Recipe Aggregator: with likes
\* a lookup of the user's like that is made for an absent user too
NeedsLikeLookup_Always(user_id) == TRUE

\* user_id ? await hasUserLikedRecipe(user_id, recipe_id) : false
NeedsLikeLookup(user_id) == user_id # 0

\* where an item goes once its popularity is settled
StageAfterCount(user_id) == IF NeedsLikeLookup(user_id) THEN "liked" ELSE "done"

\* getRecipesPreviewWithLikes up to its await
getRecipesPreviewWithLikes_begin(ids, u) ==
  /\ agg = NoAgg
  /\ agg' = [NoAgg EXCEPT !.op = "getRecipesPreviewWithLikes", !.user_id = u,
                          !.stage = "items", !.items = Items(ids), !.asked = Len(ids)]
  /\ last' = NoLast
  /\ UNCHANGED <<now, sess, dbVars, procVars, obsVars>>

\* getRecipeDetailsWithLikes up to its await: getRecipeDetails asks the
\* catalog for the recipe
getRecipeDetailsWithLikes_begin(r, u) ==
  /\ agg = NoAgg
  /\ agg' = [NoAgg EXCEPT !.op = "getRecipeDetailsWithLikes", !.user_id = u,
                          !.stage = "items", !.items = Items(<<r>>), !.asked = 1]
  /\ last' = NoLast
  /\ UNCHANGED <<now, sess, dbVars, procVars, obsVars>>

\* the answer to the getRecipeInformation request of item i: in a batch a
\* failure makes the item a placeholder; getRecipeDetailsWithLikes throws
\* the failure on
enrich_getRecipeInformation(i, answered, aggregateLikes) ==
  /\ agg.op \in {"getRecipesPreviewWithLikes", "getRecipeDetailsWithLikes"}
  /\ i \in 1..Len(agg.items) /\ agg.items[i].stage = "info"
  /\ IF answered
     THEN /\ agg' = [agg EXCEPT !.items[i].stage = "count", !.items[i].infoOk = TRUE,
                                !.items[i].aggregateLikes = aggregateLikes]
          /\ UNCHANGED last
     ELSE IF agg.op = "getRecipeDetailsWithLikes"
          THEN /\ last' = FinishedAgg(agg, CatalogError)
               /\ agg' = NoAgg
     ELSE /\ agg' = [agg EXCEPT !.items[i].stage = "done", !.items[i].error = TRUE]
          /\ UNCHANGED last
  /\ UNCHANGED <<now, sess, dbVars, procVars, obsVars>>

\* a count whose failure leaves getRecipeLikesCount and is caught by the
\* callback of the map
ItemAfterCount_Throws(item, res, likers, user_id) ==
  IF res.ok
  THEN [item EXCEPT !.stage = "catalog", !.countOk = TRUE,
                    !.userLikes = res.rows[1], !.likers = likers]
  ELSE [item EXCEPT !.stage = "done", !.error = TRUE]

\* the item after the COUNT of getRecipeLikesCount: the catalog is asked
\* next, or the outer catch has returned 0
ItemAfterCount(item, res, likers, user_id) ==
  IF res.ok
  THEN [item EXCEPT !.stage = "catalog", !.countOk = TRUE,
                    !.userLikes = res.rows[1], !.likers = likers]
  ELSE [item EXCEPT !.stage = StageAfterCount(user_id), !.popularity = 0]

\* getRecipeLikesCount of item i up to its catalog call
enrich_getRecipeLikesCount_count(i, up) ==
  /\ agg.op \in {"getRecipesPreviewWithLikes", "getRecipeDetailsWithLikes"}
  /\ i \in 1..Len(agg.items) /\ agg.items[i].stage = "count"
  /\ LET r == agg.items[i].id
         res == CountRecipeLikes(recipe_likes, r, up)
     IN agg' = [agg EXCEPT
                  !.items[i] = ItemAfterCount(@, res, Cardinality(Likers(recipe_likes, r)),
                                              agg.user_id),
                  !.asked = IF res.ok THEN @ + 1 ELSE @]
  /\ UNCHANGED <<now, sess, dbVars, procVars, last, obsVars>>

\* the rest of getRecipeLikesCount of item i
enrich_getRecipeLikesCount_catalog(i, answered, aggregateLikes) ==
  /\ agg.op \in {"getRecipesPreviewWithLikes", "getRecipeDetailsWithLikes"}
  /\ i \in 1..Len(agg.items) /\ agg.items[i].stage = "catalog"
  /\ agg' = [agg EXCEPT
               !.items[i].stage = StageAfterCount(agg.user_id),
               !.items[i].catalog = IF answered THEN aggregateLikes ELSE -1,
               !.items[i].popularity =
                  CatalogLikes(answered, aggregateLikes) + agg.items[i].userLikes]
  /\ UNCHANGED <<now, sess, dbVars, procVars, last, obsVars>>

\* hasUserLikedRecipe of item i
enrich_hasUserLikedRecipe(i, up) ==
  /\ agg.op \in {"getRecipesPreviewWithLikes", "getRecipeDetailsWithLikes"}
  /\ i \in 1..Len(agg.items) /\ agg.items[i].stage = "liked"
  /\ LET res == CountUserLike(recipe_likes, agg.user_id, agg.items[i].id, up)
     IN agg' = [agg EXCEPT !.items[i].stage = "done", !.items[i].likedAsked = TRUE,
                           !.items[i].likedOk = res.ok,
                           !.items[i].userHasLiked = hasUserLikedRecipeValue(res)]
  /\ UNCHANGED <<now, sess, dbVars, procVars, last, obsVars>>

\* Promise.all has all its items: the previews without the placeholders
getRecipesPreviewWithLikes_return ==
  /\ agg.op = "getRecipesPreviewWithLikes"
  /\ \A i \in 1..Len(agg.items) : agg.items[i].stage = "done"
  /\ last' = FinishedAgg(agg, Returned(FilterErrors(
                 [i \in 1..Len(agg.items) |-> PreviewOf(agg.items[i])])))
  /\ agg' = NoAgg
  /\ UNCHANGED <<now, sess, dbVars, procVars, obsVars>>

\* { ...recipeDetails, popularity: totalLikes, userHasLiked }
getRecipeDetailsWithLikes_return ==
  /\ agg.op = "getRecipeDetailsWithLikes"
  /\ agg.items[1].stage = "done"
  /\ last' = FinishedAgg(agg, Returned(PreviewOf(agg.items[1])))
  /\ agg' = NoAgg
  /\ UNCHANGED <<now, sess, dbVars, procVars, obsVars>>

\* ---------------------------------------------------------- specification
Init ==
  /\ now = 0
  /\ favorite_recipes = [k \in Pairs |-> 0]
  /\ watched_recipes = [k \in Pairs |-> <<>>]
  /\ recipe_likes = [k \in Pairs |-> 0]
  /\ private_recipes = {}
  /\ privateNextId = 1
  /\ family_recipes = {}
  /\ familyNextId = 1
  /\ pc = [p \in Procs |-> "idle"]
  /\ call = [p \in Procs |-> NoCall]
  /\ loc = [p \in Procs |-> NoLoc]
  /\ agg = NoAgg
  /\ sess = [s \in Sessions |-> NoSession]
  /\ last = NoLast
  /\ obsPair \in Pairs
  /\ favStage = 0
  /\ favAdded = {}
  /\ watchStage = 0
  /\ viewOrder = <<>>
  /\ likeStage = 0
  /\ likeOrig = FALSE
  /\ desStage = 0
  /\ desVal = FALSE

\* the stores of authored recipes are not tied to a catalog recipe: their
\* observers stay at rest
InitAuthored == Init /\ obsPair = <<1, 1>>

NextFav ==
  \/ \E u \in Users, r \in Recipes, up \in BOOLEAN : markAsFavorite(u, r, up)
  \/ \E u \in Users, r \in Recipes, up \in BOOLEAN : removeFavorite(u, r, up)
  \/ \E u \in Users, up \in BOOLEAN : getFavoriteRecipes(u, up)

SpecFav == Init /\ [][NextFav]_vars

NextWatch ==
  \/ Tick
  \/ \E p \in Procs, u \in Users, r \in Recipes, up \in BOOLEAN : markAsWatched_select(p, u, r, up)
  \/ \E p \in Procs, up \in BOOLEAN : markAsWatched_write(p, up)
  \/ \E u \in Users, up \in BOOLEAN : deleteAllWatchedRecipes(u, up)

SpecWatch == Init /\ [][NextWatch]_vars

\* the users and the recipes are interchangeable: the observers follow one pair
InitHistory == Init /\ obsPair = <<1, 1>>

\* the watch history with its two reads, and with callers that have no
\* identity (user 0); a limit of -1 is a call that gives none. The views come
\* one at a time (SpecWatch has them overlap); the reads and the clearing step
\* between the two statements of a view
Limits == {-1, 1}
NextHistory ==
  \/ Tick
  \/ \E u \in UsersOrNone, r \in Recipes, up \in BOOLEAN : markAsWatched_select(1, u, r, up)
  \/ \E up \in BOOLEAN : markAsWatched_write(1, up)
  \/ \E u \in UsersOrNone, up \in BOOLEAN : getWatchedRecipes(u, up)
  \/ \E u \in UsersOrNone, limit \in Limits, up \in BOOLEAN : getLastWatchedRecipes(u, limit, up)
  \/ \E u \in UsersOrNone, up \in BOOLEAN : deleteAllWatchedRecipes(u, up)

SpecHistory == InitHistory /\ [][NextHistory]_vars

NextLike ==
  \/ \E u \in Users, r \in Recipes, like \in BOOLEAN, up \in BOOLEAN :
        toggleRecipeLike_desired(u, r, like, up)
  \/ \E p \in Procs, u \in Users, r \in Recipes, up \in BOOLEAN : toggleRecipeLike_read(p, u, r, up)
  \/ \E p \in Procs, up \in BOOLEAN : toggleRecipeLike_write(p, up)

NextCount ==
  \/ \E u \in Users, r \in Recipes, like \in BOOLEAN, up \in BOOLEAN :
        toggleRecipeLike_desired(u, r, like, up)
  \/ \E p \in Procs, r \in Recipes, up \in BOOLEAN : getRecipeLikesCount_count(p, r, up)
  \/ \E p \in Procs, answered \in BOOLEAN, n \in 0..MaxLikes :
        getRecipeLikesCount_catalog(p, answered, n)
  \/ \E u \in Users, r \in Recipes, up \in BOOLEAN : hasUserLikedRecipe(u, r, up)

SpecCount == Init /\ [][NextCount]_vars


PrivateFields ==
  [title : Names \cup {Undefined, <<>>}, servings : {-1, 0, 4},
   ingredients : IngredientLists \cup {UndefinedList}, recipe_name : {Undefined}, query : {Undefined},
   owner_name : {Undefined}, instructions : {Undefined}, when_to_prepare : {Undefined}]

NextPrivate ==
  \/ \E u \in Users, f \in PrivateFields, up \in BOOLEAN : addPrivateRecipe(u, f, up)
  \/ \E id \in 1..(MaxPrivate + 1), u \in Users, up \in BOOLEAN :
        getPrivateRecipeDetails(id, u, up)

SpecPrivate == InitAuthored /\ [][NextPrivate]_vars

\* the family requests carry a list that names an ingredient, in letters and
\* double quotes (the empty list and the single quote go through the same
\* statements in the private store)
FamilyIngredientLists ==
  {l \in IngredientLists :
     Len(l) > 0 /\ \A i \in 1..Len(l) : \A j \in 1..Len(l[i]) : l[i][j] # SQ}

FamilyFields ==
  [title : {Undefined}, servings : {-1},
   ingredients : FamilyIngredientLists \cup {UndefinedList},
   recipe_name : {Undefined, <<"a">>}, query : {Undefined},
   owner_name : {<<"a">>}, instructions : {<<"a">>}, when_to_prepare : {Undefined}]

NextFamily ==
  \/ \E u \in Users, f \in FamilyFields, up \in BOOLEAN : addFamilyRecipe(u, f, up)
  \/ \E u \in Users, f \in FamilyFields, up \in BOOLEAN : addFamilyRecipe_bound(u, f, up)
  \/ \E p \in Procs, u \in Users, id \in 1..MaxFamily, up \in BOOLEAN :
        deleteFamilyRecipe_select(p, u, id, up)
  \/ \E p \in Procs, up \in BOOLEAN : deleteFamilyRecipe_delete(p, up)
  \/ \E u \in Users, up \in BOOLEAN : getAllFamilyRecipes(u, up)

SpecFamily == InitAuthored /\ [][NextFamily]_vars

\* the ownership of family recipes: recipes with all their fields are
\* created, read one at a time and deleted, by their owner and by others
OwnedFields ==
  [title : {Undefined}, servings : {-1},
   ingredients : {<<<<"a">>>>, <<<<DQ>>>>},
   recipe_name : {<<"a">>}, query : {Undefined},
   owner_name : {<<"a">>}, instructions : {<<"a">>}, when_to_prepare : {Undefined}]

NextOwned ==
  \/ \E u \in Users, f \in OwnedFields, up \in BOOLEAN : addFamilyRecipe(u, f, up)
  \/ \E p \in Procs, u \in Users, id \in 1..MaxFamily, up \in BOOLEAN :
        deleteFamilyRecipe_select(p, u, id, up)
  \/ \E p \in Procs, up \in BOOLEAN : deleteFamilyRecipe_delete(p, up)
  \/ \E id \in 1..MaxFamily, u \in UsersOrNone, up \in BOOLEAN :
        getFamilyRecipeDetails(id, u, up)

SpecOwned == InitAuthored /\ [][NextOwned]_vars

\* the sessions: users log in and out, search and ask for the last search
NextSession ==
  \/ \E s \in Sessions, u \in Users : login(s, u)
  \/ \E s \in Sessions, reset \in BOOLEAN : logout(s, reset)
  \/ \E s \in Sessions, answered \in BOOLEAN, results \in Batches : search(s, answered, results)
  \/ \E s \in Sessions, up \in BOOLEAN, found \in BOOLEAN : lastSearch(s, up, found)

SpecSession == InitAuthored /\ [][NextSession]_vars

\* the creation of family recipes alone, each of its fields given or not
CreateFields ==
  [title : {Undefined}, servings : {-1},
   ingredients : {UndefinedList, <<<<"a">>>>},
   recipe_name : {Undefined, <<"a">>}, query : {Undefined},
   owner_name : {Undefined, <<"a">>}, instructions : {Undefined, <<"a">>},
   when_to_prepare : {Undefined, <<"a">>}]

NextCreate ==
  \/ \E u \in Users, f \in CreateFields, up \in BOOLEAN : addFamilyRecipe(u, f, up)
  \/ \E u \in Users, f \in CreateFields, up \in BOOLEAN : addFamilyRecipe_bound(u, f, up)

SpecCreate == InitAuthored /\ [][NextCreate]_vars

SpecLike == Init /\ [][NextLike]_vars

Queries == {Undefined, <<>>, <<"a">>}

NextPreview ==
  \/ \E ids \in Batches : getRecipesPreview_begin(ids)
  \/ \E query \in Queries : searchRecipes_begin(query)
  \/ \E answered \in BOOLEAN, ids \in Batches : searchRecipes_results(answered, ids)
  \/ \E i \in 1..MaxBatch, answered \in BOOLEAN, n \in 0..MaxLikes :
        getRecipeInformation_answer(i, answered, n)
  \/ getRecipesPreview_return

SpecPreview == InitAuthored /\ [][NextPreview]_vars


\* the likes change under the aggregator through the users the observers do
\* not follow
NextEnrich ==
  \/ \E u \in Users \ {obsPair[1]}, r \in Recipes, like \in BOOLEAN, up \in BOOLEAN :
        toggleRecipeLike_desired(u, r, like, up)
  \/ \E ids \in Batches, u \in UsersOrNone : getRecipesPreviewWithLikes_begin(ids, u)
  \/ \E r \in Recipes, u \in UsersOrNone : getRecipeDetailsWithLikes_begin(r, u)
  \/ \E i \in 1..MaxBatch, answered \in BOOLEAN, n \in 0..MaxLikes :
        enrich_getRecipeInformation(i, answered, n)
  \/ \E i \in 1..MaxBatch, up \in BOOLEAN : enrich_getRecipeLikesCount_count(i, up)
  \/ \E i \in 1..MaxBatch, answered \in BOOLEAN, n \in 0..MaxLikes :
        enrich_getRecipeLikesCount_catalog(i, answered, n)
  \/ \E i \in 1..MaxBatch, up \in BOOLEAN : enrich_hasUserLikedRecipe(i, up)
  \/ getRecipesPreviewWithLikes_return
  \/ getRecipeDetailsWithLikes_return

SpecEnrich == InitAuthored /\ [][NextEnrich]_vars

\* ------------------------------------------------------------- claims

\* C1: two markAsWatched calls on a pair made one after the other (no other
\* request stepping meanwhile) leave exactly one watched_recipes row for the
\* pair, and its watched_at is the time of the second call (the time at which
\* the call's UPDATE ran and the call ended).
C1_TwoViewsOneRow ==
  watchStage = 2 =>
    /\ Len(watched_recipes[obsPair]) = 1
    /\ (last.op = "markAsWatched" /\ <<last.user_id, last.recipe_id>> = obsPair) =>
         watched_recipes[obsPair][1] = last.t1

\* the second call ran later than the first, and found the first call's row
C1_Witness ==
  /\ watchStage = 2
  /\ last.op = "markAsWatched" /\ <<last.user_id, last.recipe_id>> = obsPair
  /\ last.l.exists /\ last.t1 > 0

\* C2: for a pair that starts with no favorite row, markAsFavorite succeeds; a
\* second markAsFavorite fails with status 409 and leaves the single row; the
\* removeFavorite after it returns true; a further removeFavorite returns false.
C2_AddAddRemoveRemove ==
  /\ favStage \in {1, 2} => favorite_recipes[obsPair] = 1
  /\ favStage \in {3, 4} => favorite_recipes[obsPair] = 0
  /\ (favStage > 0 /\ <<last.user_id, last.recipe_id>> = obsPair) =>
       /\ last.op = FavPattern[favStage]
       /\ favStage = 1 => ~last.out.thrown
       /\ favStage = 2 => last.out.thrown /\ last.out.status = 409
       /\ favStage = 3 => ~last.out.thrown /\ last.out.value = TRUE
       /\ favStage = 4 => ~last.out.thrown /\ last.out.value = FALSE

\* the whole sequence has run on the pair
C2_Witness ==
  favStage = 4 /\ <<last.user_id, last.recipe_id>> = obsPair /\ last.op = "removeFavorite"

\* C3: when its storage query and its catalog call both succeed,
\* getRecipeLikesCount(r) returns the popularity the catalog reported plus the
\* number of distinct users that had a like row on r when the call counted.
C3_CountCombined ==
  (last.op = "getRecipeLikesCount" /\ last.l.readOk /\ last.catalog >= 0) =>
    ~last.out.thrown /\ last.out.value = last.catalog + last.l.likers

\* a count over a recipe that has likers and a positive catalog popularity
C3_Witness ==
  /\ last.op = "getRecipeLikesCount" /\ last.l.readOk
  /\ last.catalog > 0 /\ last.l.likers > 0

\* C4: toggleRecipeLike with a desired value d is idempotent: after one call or
\* after repeated calls with the same d the pair is liked exactly once (d true)
\* or not liked (d false), and a call throws only when the store fails, never
\* because the pair is already in the state asked for.
C4_DesiredIdempotent ==
  /\ desStage > 0 => recipe_likes[obsPair] = (IF desVal THEN 1 ELSE 0)
  /\ (last.op = "toggleRecipeLike" /\ last.like # "undefined") =>
       (last.out.thrown <=> ~last.l.readOk)

\* a repeated like: the second call found the row of the first
C4_Witness ==
  /\ desStage = 2 /\ desVal
  /\ last.op = "toggleRecipeLike" /\ last.like = "true" /\ ~last.out.thrown

C10_RaceDiffers ==
  (/\ last.op = "toggleRecipeLike" /\ last.like = "undefined"
   /\ last.l.raced /\ ~last.out.thrown) =>
    (recipe_likes[obsPair] > 0) # last.l.currentlyLiked

\* such a race has happened
C10_Witness ==
  /\ last.op = "toggleRecipeLike" /\ last.like = "undefined"
  /\ last.l.raced /\ ~last.out.thrown

\* ------------------------------------------------ claims: private recipes
PrivateOwned(u, id) ==
  \E row \in private_recipes : row.recipe_id = id /\ row.user_id = u

PrivateRowOf(id) == CHOOSE row \in private_recipes : row.recipe_id = id

\* C6: getPrivateRecipeDetails for an id the caller does not own ends the same
\* way whether another user owns that id or nobody does: with the 404
\* "Private recipe not found" when the store answers (with the 500 of a
\* failed store otherwise), and never with a recipe
C6_NonOwnerAsAbsent ==
  (last.op = "getPrivateRecipeDetails" /\ ~PrivateOwned(last.user_id, last.recipe_id))
    => last.out = IF last.l.readOk THEN Thrown(404, "Private recipe not found")
                  ELSE Thrown(500, "Failed to retrieve private recipe details")

C6_Witness ==
  /\ last.op = "getPrivateRecipeDetails"
  /\ \E row \in private_recipes :
        row.recipe_id = last.recipe_id /\ row.user_id # last.user_id
  /\ last.out = Thrown(404, "Private recipe not found")

\* C7: addPrivateRecipe with title and servings present returns a new id when
\* the store answers, and getPrivateRecipeDetails of an owned recipe returns
\* the title, the servings and the ingredients that were supplied (the empty
\* list when none were)
C7_RoundTrip ==
  /\ (last.op = "addPrivateRecipe" /\ ~PrivateFieldsMissing(last.fields) /\ last.l.readOk)
       => (~last.out.thrown /\ PrivateOwned(last.user_id, last.out.value))
  /\ (last.op = "getPrivateRecipeDetails" /\ last.l.readOk
        /\ PrivateOwned(last.user_id, last.recipe_id))
       => LET given == PrivateRowOf(last.recipe_id).given
          IN /\ ~last.out.thrown
             /\ last.out.value.title = given.title
             /\ last.out.value.servings = given.servings
             /\ last.out.value.ingredients = IngredientsOrEmpty(given)

\* C8: an addPrivateRecipe whose title or servings is missing ends with the
\* 400 "Missing required parameters" whether or not the store is reachable,
\* and leaves the table and its id counter as they were
C8_MissingFieldsRejected ==
  [][(/\ last'.op = "addPrivateRecipe"
      /\ \/ last'.fields.title \in {Undefined, <<>>}
         \/ last'.fields.servings \in {-1, 0})
       => /\ last'.out = Thrown(400, "Missing required parameters")
          /\ private_recipes' = private_recipes
          /\ privateNextId' = privateNextId]_vars

C8_Witness ==
  /\ last.op = "addPrivateRecipe"
  /\ last.fields.servings = 0
  /\ last.out = Thrown(400, "Missing required parameters")
  /\ private_recipes # {}

\* ------------------------------------------------- claims: family recipes
FamilyOwned(u) == {row \in family_recipes : row.user_id = u}

\* C5: whatever addFamilyRecipe and deleteFamilyRecipe calls came before, a
\* getAllFamilyRecipes that the store answers ends with the 204 "There are
\* less than 3 family recipes" when the user owns fewer than 3 rows, and
\* otherwise returns every row the user owns with the ingredients that were
\* supplied for it
C5_ListAllRule ==
  (last.op = "getAllFamilyRecipes" /\ last.l.readOk) =>
    LET owned == FamilyOwned(last.user_id)
    IN IF Cardinality(owned) < 3
       THEN last.out = Thrown(204, "There are less than 3 family recipes")
       ELSE /\ ~last.out.thrown
            /\ last.out.value = {[id |-> row.recipe_id, ingredients |-> row.given]
                                   : row \in owned}

\* ----------------------------------------------- claims: the like lookups
\* C13: hasUserLikedRecipe never throws: it returns false when its query
\* fails, and when the query is answered it returns true exactly when the
\* pair has a like row
C13_HasLikedTotal ==
  last.op = "hasUserLikedRecipe" =>
    /\ ~last.out.thrown
    /\ last.out.value =
         (last.l.readOk /\ recipe_likes[<<last.user_id, last.recipe_id>>] > 0)

\* a failed lookup on a pair that is liked
C13_Witness ==
  /\ last.op = "hasUserLikedRecipe" /\ ~last.l.readOk
  /\ recipe_likes[<<last.user_id, last.recipe_id>>] > 0
  /\ last.out = Returned(FALSE)

\* C14: when the catalog call of getRecipeLikesCount fails, the call does not
\* throw and returns the number of like rows the recipe had when it counted
C14_CatalogFailureCountsRows ==
  (last.op = "getRecipeLikesCount" /\ last.l.readOk /\ last.catalog = -1) =>
    /\ ~last.out.thrown
    /\ last.out.value = last.l.likers

\* a failed catalog call for a recipe that has likers
C14_Witness ==
  /\ last.op = "getRecipeLikesCount" /\ last.l.readOk /\ last.catalog = -1
  /\ last.l.likers > 0 /\ last.out = Returned(last.l.likers)

\* -------------------------------------------------- claims: the aggregator
\* C11: getRecipesPreview never throws, whatever ids it is given and whichever
\* of their fetches fail: it returns the previews of the ids whose fetch
\* succeeded, in the order of the input, none of them with the error flag
C11_BatchSurvivesFailures ==
  last.op = "getRecipesPreview" =>
    LET fetched == SelectSeq(last.items, LAMBDA item : item.infoOk)
    IN /\ ~last.out.thrown
       /\ Len(last.out.value) = Len(fetched)
       /\ \A k \in 1..Len(fetched) :
            /\ last.out.value[k].id = fetched[k].id
            /\ last.out.value[k].popularity = fetched[k].catalog
            /\ ~last.out.value[k].error

\* a batch of two whose first fetch failed and whose second was answered
C11_Witness ==
  /\ last.op = "getRecipesPreview" /\ Len(last.items) = 2
  /\ ~last.items[1].infoOk /\ last.items[2].infoOk
  /\ Len(last.out.value) = 1

\* C16: searchRecipes with an absent or an empty query ends with the 400
\* "Query parameter is missing" and has sent no request to the catalog
C16_MissingQueryFailsFast ==
  (last.op = "searchRecipes" /\ last.fields.query \in {Undefined, <<>>}) =>
    /\ last.out = Thrown(400, "Query parameter is missing")
    /\ last.asked = 0

C16_Witness ==
  /\ last.op = "searchRecipes" /\ last.fields.query = <<>>
  /\ last.out = Thrown(400, "Query parameter is missing")

\* C12: getRecipesPreviewWithLikes drops a recipe only when its metadata
\* fetch failed: it returns, in the order of the input, a preview for every
\* id whose fetch was answered, whatever became of the two lookups; the
\* popularity is the likes counted plus what the catalog reported (0 for a
\* catalog that failed, 0 in all when the count failed), and userHasLiked is
\* false when its lookup failed
C12_EnrichmentKeepsPreview ==
  last.op = "getRecipesPreviewWithLikes" =>
    LET fetched == SelectSeq(last.items, LAMBDA item : item.infoOk)
    IN /\ ~last.out.thrown
       /\ Len(last.out.value) = Len(fetched)
       /\ \A k \in 1..Len(fetched) :
            /\ last.out.value[k].id = fetched[k].id
            /\ ~last.out.value[k].error
            /\ last.out.value[k].popularity =
                 (IF ~fetched[k].countOk THEN 0
                  ELSE fetched[k].likers
                       + (IF fetched[k].catalog >= 0 THEN fetched[k].catalog ELSE 0))
            /\ last.out.value[k].userHasLiked => fetched[k].likedOk

\* a batch of two: the first recipe was fetched and both its lookups failed,
\* the fetch of the second failed
C12_Witness ==
  /\ last.op = "getRecipesPreviewWithLikes" /\ Len(last.items) = 2
  /\ last.items[1].infoOk /\ ~last.items[1].countOk
  /\ last.items[1].likedAsked /\ ~last.items[1].likedOk
  /\ ~last.items[2].infoOk
  /\ Len(last.out.value) = 1 /\ last.out.value[1].id = last.items[1].id

\* C15: getRecipeDetailsWithLikes with no user identity throws only when the
\* catalog fails to give the recipe; otherwise it returns userHasLiked =
\* false, whatever likes the recipe has, and has made no lookup of a like
C15_NoIdentityNoLookup ==
  (last.op = "getRecipeDetailsWithLikes" /\ last.user_id = 0) =>
    /\ last.out.thrown <=> ~last.items[1].infoOk
    /\ ~last.out.thrown =>
         /\ last.out.value.userHasLiked = FALSE
         /\ ~last.items[1].likedAsked

\* the details of a recipe that has a liker, asked for with no identity
C15_Witness ==
  /\ last.op = "getRecipeDetailsWithLikes" /\ last.user_id = 0
  /\ ~last.out.thrown /\ last.items[1].likers > 0
  /\ \E u \in Users : recipe_likes[<<u, last.items[1].id>>] > 0

\* the four operations of the watch history
WatchOps == {"markAsWatched", "getWatchedRecipes", "getLastWatchedRecipes",
             "deleteAllWatchedRecipes"}

\* C17: each of markAsWatched, getWatchedRecipes, getLastWatchedRecipes and
\* deleteAllWatchedRecipes, called with no user identity, fails with status
\* 401 and has sent no statement to the store
C17_AbsentIdentityUnauthorized ==
  (last.op \in WatchOps /\ last.user_id = 0) =>
    /\ last.out.thrown
    /\ last.out.status = 401
    /\ last.l.sent = 0

\* watched_at of the row of obsPair[1] and recipe r
WatchedAt(r) == watched_recipes[<<obsPair[1], r>>][1]
Min(a, b) == IF a < b THEN a ELSE b
Reverse(seq) == [i \in 1..Len(seq) |-> seq[Len(seq) + 1 - i]]
InSeq(x, seq) == \E i \in 1..Len(seq) : seq[i] = x

\* value lists n of the recipes obsPair[1] has viewed, each once, by
\* watched_at from the latest on, and no recipe left out has a later watched_at
ListedByTimestamp(value, n) ==
  /\ Len(value) = n
  /\ \A i \in 1..n : InSeq(value[i], viewOrder)
  /\ \A i, j \in 1..n : i < j =>
       value[i] # value[j] /\ WatchedAt(value[i]) >= WatchedAt(value[j])
  /\ \A k \in 1..Len(viewOrder) : ~InSeq(viewOrder[k], value) =>
       \A i \in 1..n : WatchedAt(value[i]) >= WatchedAt(viewOrder[k])

C19_ClearAllCounts ==
  [][deleteAllWatchedRecipes(obsPair[1], TRUE) =>
       /\ ~last'.out.thrown
       /\ last'.out.value = Cardinality(WatchedRows(watched_recipes, obsPair[1]))
       /\ \A res \in SelectWatchedOf(watched_recipes', obsPair[1], -1, TRUE) : res.rows = <<>>
       /\ \A k \in Pairs : k[1] # obsPair[1] => watched_recipes'[k] = watched_recipes[k]
    ]_vars

\* the call removed two rows, and another user still has one that is not
\* later than the call
C19_Witness ==
  /\ last.op = "deleteAllWatchedRecipes" /\ last.user_id = obsPair[1]
  /\ ~last.out.thrown /\ last.out.value = 2
  /\ viewOrder = <<>>
  /\ \E k \in Pairs : /\ k[1] # obsPair[1] /\ Len(watched_recipes[k]) = 1
                      /\ watched_recipes[k][1] < last.t1

\* C20: addFamilyRecipe with any of recipe_name, owner_name, ingredients or
\* instructions missing fails with status 400 and inserts nothing; with the
\* four present and when_to_prepare absent, on a store that answers, it
\* inserts one row of the user and returns its new id
C20_ValidatedCreate ==
  [][\A f \in CreateFields, up \in BOOLEAN :
       (addFamilyRecipe(obsPair[1], f, up) \/ addFamilyRecipe_bound(obsPair[1], f, up)) =>
         IF \/ f.recipe_name = Undefined \/ f.owner_name = Undefined
            \/ f.instructions = Undefined \/ f.ingredients = UndefinedList
         THEN /\ last'.out.thrown /\ last'.out.status = 400
              /\ family_recipes' = family_recipes
         ELSE (up /\ f.when_to_prepare = Undefined) =>
                /\ ~last'.out.thrown
                /\ \E row \in family_recipes' \ family_recipes :
                     /\ family_recipes' = family_recipes \cup {row}
                     /\ row.recipe_id = last'.out.value
                     /\ row.user_id = obsPair[1]
    ]_vars

\* C21: getFamilyRecipeDetails(recipeId, userId) on a store that answers
\* returns a recipe only when a row with that id is owned by userId, and that
\* row's id; when no row has the id and when the row is another user's it
\* ends alike, with the 404 "Family recipe not found"
C21_OwnerScopedDetails ==
  [][\A id \in 1..MaxFamily :
       getFamilyRecipeDetails(id, obsPair[1], TRUE) =>
         LET owned == \E row \in family_recipes :
                         row.recipe_id = id /\ row.user_id = obsPair[1]
         IN /\ ~last'.out.thrown => (owned /\ last'.out.value.id = id)
            /\ ~owned => last'.out = Thrown(404, "Family recipe not found")
    ]_vars

\* the caller owns a recipe, and the call ended with the 404 for an id that
\* is another user's
C21_Witness ==
  /\ last.op = "getFamilyRecipeDetails" /\ last.user_id = obsPair[1]
  /\ last.out = Thrown(404, "Family recipe not found")
  /\ \E row \in family_recipes :
        row.recipe_id = last.recipe_id /\ row.user_id # obsPair[1]
  /\ \E row \in family_recipes : row.user_id = obsPair[1]

\* the rows of family_recipes with that id that are user u's
FamilyRowsOf(id, u) == {row \in family_recipes : row.recipe_id = id /\ row.user_id = u}

\* C22: deleteFamilyRecipe(userId, recipeId) on a store that answers checks
\* the ownership first: for an id that no row has or that is another user's
\* it ends with the 404 and family_recipes is as it was; for an id of the
\* user's it goes on to the DELETE, which takes away that row and no other,
\* and the call returns true (a call that ran with no other request stepping
\* meanwhile has removed exactly one row)
C22_DeleteChecksOwner ==
  [][/\ \A p \in Procs, id \in 1..MaxFamily :
          deleteFamilyRecipe_select(p, obsPair[1], id, TRUE) =>
            /\ family_recipes' = family_recipes
            /\ IF FamilyRowsOf(id, obsPair[1]) = {}
               THEN last'.out = Thrown(404, "Family recipe not found or doesn't belong to you")
               ELSE last' = last /\ pc'[p] = "delete_family"
     /\ \A p \in Procs :
          (deleteFamilyRecipe_delete(p, TRUE) /\ call[p].user_id = obsPair[1]) =>
            /\ last'.out = Returned(TRUE)
            /\ family_recipes' = family_recipes \ FamilyRowsOf(call[p].recipe_id, obsPair[1])
            /\ loc[p].solo => Cardinality(family_recipes \ family_recipes') = 1
    ]_vars

\* the owner's call returned true, its row is gone and another row of the
\* owner's is left
C22_Witness ==
  /\ last.op = "deleteFamilyRecipe" /\ last.user_id = obsPair[1]
  /\ last.out = Returned(TRUE) /\ last.l.exists
  /\ FamilyRowsOf(last.recipe_id, obsPair[1]) = {}
  /\ \E row \in family_recipes : row.user_id = obsPair[1]

\* C28: deleteFamilyRecipe returns true only to a call whose DELETE removed
\* the row: of two calls of the owner for one recipe that interleave, one at
\* most returns true
C28_TrueOnlyWhenRemoved ==
  [][\A p \in Procs :
       (deleteFamilyRecipe_delete(p, TRUE) /\ call[p].user_id = obsPair[1]
          /\ last'.out = Returned(TRUE))
         => family_recipes' # family_recipes
    ]_vars

\* C23: an operation other than hasUserLikedRecipe whose storage query failed
\* ends thrown: neither getRecipeLikesCount nor toggleRecipeLike returns a
\* result for such a call
C23_StorageFailureReported ==
  (last.op \in {"getRecipeLikesCount", "toggleRecipeLike"} /\ ~last.l.readOk) =>
    last.out.thrown

C25_AtMostOneWatchRow == \A k \in Pairs : Len(watched_recipes[k]) <= 1

\* a call whose SELECT found no row stands before its INSERT, and the pair
\* has got its row from another call meanwhile
C25_Witness ==
  \E p \in Procs :
    /\ pc[p] = "mw_write" /\ ~loc[p].exists
    /\ Len(watched_recipes[<<call[p].user_id, call[p].recipe_id>>]) = 1

\* C27: two markAsWatched calls for a pair with no row that interleave both
\* complete: on a store that answers, the second statement of a call never
\* ends it with the 500 "Failed to mark recipe as watched"
C27_InterleavedViewsSucceed ==
  [][\A p \in Procs :
       (markAsWatched_write(p, TRUE) /\ <<call[p].user_id, call[p].recipe_id>> = obsPair)
         => ~last'.out.thrown
    ]_vars

\* ---------------------------------------------------- claims: the sessions
\* C26: GET /users/lastSearch of a logged-in caller returns the results of
\* the latest search that ended in its session while a user was logged in,
\* and the empty list when the session has had none; a search by a session
\* where nobody is logged in changes the lastSearch of no session
C26_LastSearchOfSession ==
  [][/\ \A s \in Sessions :
          (lastSearch(s, TRUE, TRUE) /\ sess[s].user_id # 0) =>
            last'.out = Returned(IF sess[s].performed.set
                                 THEN sess[s].performed.value ELSE <<>>)
     /\ \A s \in Sessions, answered \in BOOLEAN, results \in Batches :
          (search(s, answered, results) /\ sess[s].user_id = 0) =>
            \A t \in Sessions : sess'[t].lastSearch = sess[t].lastSearch
    ]_vars

\* the caller got the results its session had searched, while another
\* session, where nobody is logged in, has nothing stored
C26_Witness ==
  /\ last.op = "lastSearch" /\ ~last.out.thrown /\ Len(last.out.value) > 0
  /\ \E s, t \in Sessions :
       /\ s # t
       /\ sess[s].user_id = last.user_id /\ sess[s].lastSearch = Stored(last.out.value)
       /\ sess[t].user_id = 0 /\ ~sess[t].lastSearch.set

\* ------------------------------------------ claims: the details with likes
\* C29: the popularity of a getRecipeDetailsWithLikes response is the
\* catalog popularity the request's metadata fetch obtained plus the like
\* rows the request counted for the recipe, and it is never lower than that
\* catalog popularity
C29_PopularityAtLeastCatalog ==
  (last.op = "getRecipeDetailsWithLikes" /\ ~last.out.thrown) =>
     /\ last.out.value.popularity = last.items[1].aggregateLikes + last.items[1].userLikes
     /\ last.out.value.popularity >= last.items[1].aggregateLikes

\* ------------------------------------------------- claims: the favorites
\* the number of places of a list that hold x
Occurrences(list, x) == Cardinality({i \in DOMAIN list : list[i] = x})

\* C30: whatever markAsFavorite and removeFavorite calls were made,
\* getFavoriteRecipes(u) returns the recipes u has added and not removed
\* since, each once and no other; a markAsFavorite or removeFavorite call of
\* another user leaves the favorite rows of u as they were
C30_FavoritesOfUser ==
  [][/\ \A u \in Users :
          (getFavoriteRecipes(u, TRUE) /\ u = obsPair[1]) =>
             /\ ~last'.out.thrown
             /\ \A r \in Recipes :
                  Occurrences(last'.out.value, r) = (IF <<u, r>> \in favAdded THEN 1 ELSE 0)
     /\ \A u, v \in Users, r \in Recipes, up \in BOOLEAN :
          (v # u /\ (markAsFavorite(v, r, up) \/ removeFavorite(v, r, up))) =>
             /\ \A x \in Recipes : favorite_recipes'[<<u, x>>] = favorite_recipes[<<u, x>>]
             /\ \A x \in Recipes : <<u, x>> \in favAdded' <=> <<u, x>> \in favAdded
    ]_vars

\* a user was given its one favorite while another user holds a different
\* recipe, which is not in the list
C30_Witness ==
  /\ last.op = "getFavoriteRecipes" /\ ~last.out.thrown /\ Len(last.out.value) = 1
  /\ <<last.user_id, last.out.value[1]>> \in favAdded
  /\ \E v \in Users, r \in Recipes :
       v # last.user_id /\ <<v, r>> \in favAdded /\ r # last.out.value[1]

====
